---------------------------- MODULE Spec2Model ----------------------------
(***************************************************************************)
(* A model of runeseg's fused stepping function (Step / StepString), of    *)
(* the grapheme cluster parser (grTransitions, transitionGraphemeState),   *)
(* of the context-based line breaking machine (transitionLineBreakContext) *)
(* and of FirstLineSegmentContext.                                         *)
(*                                                                         *)
(* Texts are sequences of bytes; code points are integers; the packed      *)
(* state token of Step is kept as its bit fields (a 64-bit integer does    *)
(* not fit the model checker's integers):                                  *)
(*   [neg, gr (bits 0-11), wb (12-16), sb (17-20), lb (21-36), pr (37+)]   *)
(***************************************************************************)
EXTENDS Integers, Sequences, FiniteSets, TLC

\* Line break verdicts (linebreak.go)
LineDontBreak == 0
LineCanBreak == 1
LineMustBreak == 2

\* Grapheme cluster break properties (properties.go)
prXX == 0
prAny == 1
prPrepend == 2
prCR == 3
prLF == 4
prControl == 5
prExtend == 6
prRegionalIndicator == 7
prSpacingMark == 8
prL == 9
prV == 10
prT == 11
prLV == 12
prLVT == 13
prZWJ == 14
prExtendedPictographic == 15

\* Line break properties (properties.go)
prCM == 38
prBA == 39
prBK == 40
prSP == 41
prEX == 42
prQU == 43
prAL == 44
prPR == 45
prPO == 46
prOP == 47
prCP == 48
prIS == 49
prHY == 50
prSY == 51
prNU == 52
prCL == 53
prNL == 54
prGL == 55
prAI == 56
prBB == 57
prHL == 58
prSA == 59
prJL == 60
prJV == 61
prJT == 62
prNS == 63
prZW == 64
prB2 == 65
prIN == 66
prWJ == 67
prID == 68
prEB == 69
prCJ == 70
prH2 == 71
prH3 == 72
prSG == 73
prCB == 74
prRI == 75
prEM == 76

\* Word and sentence break properties (properties.go)
prNewline == 16
prWSegSpace == 17
prDoubleQuote == 18
prSingleQuote == 19
prMidNumLet == 20
prNumeric == 21
prMidLetter == 22
prMidNum == 23
prExtendNumLet == 24
prALetter == 25
prFormat == 26
prHebrewLetter == 27
prKatakana == 28
prSp == 29
prSTerm == 30
prClose == 31
prSContinue == 32
prATerm == 33
prUpper == 34
prLower == 35
prSep == 36
prOLetter == 37

\* East Asian width, Aksara and InCB properties (properties.go)
prN == 77
prNa == 78
prA == 79
prW == 80
prH == 81
prF == 82
prAK == 85
prAP == 86
prAS == 87
prVF == 88
prVI == 89
prHH == 90
prInCBNone == 91
prInCBLinker == 92
prInCBConsonant == 93
prInCBExtend == 94

\* General categories (properties.go)
gcNone == 0
gcCc == 1
gcZs == 2
gcPo == 3
gcSc == 4
gcPs == 5
gcPe == 6
gcPd == 8
gcNd == 9
gcLu == 10
gcSk == 11
gcLl == 13
gcSo == 14
gcLo == 15
gcPi == 16
gcCf == 17
gcPf == 19
gcLm == 21
gcMn == 22
gcMc == 24
gcZl == 26
gcCn == 28
gcCo == 30

\* Grapheme parser states and InCB tracking bits
grAny == 0
grCR == 1
grControlLF == 2
grL == 3
grLVV == 4
grLVTT == 5
grPrepend == 6
grExtendedPictographic == 7
grExtendedPictographicZWJ == 8
grRIOdd == 9
grRIEven == 10
grInCBNone == 0
grInCBConsonant == 256
grInCBExtend == 512
grInCBLinker == 768
grInCBMask == 3840
grNoBoundary == 0
grBoundary == 1

\* Line context flags
lbCtxSot == 1
lbCtxAfterQUPi == 2
lbCtxQUPiSP == 4
lbCtxAfterZWJ == 16
lbCtxCPeaFWH == 32
lbCtxAksaraVirama == 128

\* Line context base states
lbcAny == 0
lbcCR == 1
lbcLF == 2
lbcBK == 3
lbcNL == 4
lbcSP == 5
lbcZW == 6
lbcWJ == 7
lbcGL == 8
lbcBA == 9
lbcHY == 10
lbcCL == 11
lbcCP == 12
lbcEX == 13
lbcIS == 14
lbcSY == 15
lbcOP == 16
lbcQU == 17
lbcNS == 18
lbcAL == 19
lbcHL == 20
lbcNU == 21
lbcPR == 22
lbcPO == 23
lbcID == 24
lbcEB == 25
lbcEM == 26
lbcIN == 27
lbcCB == 28
lbcB2 == 29
lbcRI == 30
lbcZWJ == 31
lbcCM == 32
lbcAK == 33
lbcAP == 34
lbcAS == 35
lbcVI == 36
lbcVF == 37
lbcAKVI == 38
lbcHH == 39
lbcJL == 40
lbcJV == 41
lbcJT == 42
lbcH2 == 43
lbcH3 == 44
lbcRIOdd == 45
lbcRIEven == 46
lbcB2SP == 47
lbcCLCP == 48
lbcQUSP == 49
lbcOPSP == 50
lbcQUPi == 51
lbcQUPiSP == 52
lbcZWSP == 53
lbcHLHY == 54
lbcSotHY == 55
lbcSotHH == 56
lbcDottedCircle == 57
lbcBB == 58
lbcExtPic == 59
lbcExtPicCn == 60
lbcExtPicZWJ == 61

\* Legacy line parser initial state (used by Step's end-of-input token)
lbAny == 0

\* The states of the legacy line break parser (transition table)
lbBK == 1
lbCR == 2
lbLF == 3
lbNL == 4
lbSP == 5
lbZW == 6
lbWJ == 7
lbGL == 8
lbBA == 9
lbHY == 10
lbCL == 11
lbCP == 12
lbEX == 13
lbIS == 14
lbSY == 15
lbOP == 16
lbQU == 17
lbQUPi == 18
lbQUSP == 19
lbQUPiSP == 20
lbNS == 21
lbCLCPSP == 22
lbB2 == 23
lbB2SP == 24
lbCB == 25
lbBB == 26
lbLB21a == 27
lbHL == 28
lbAL == 29
lbNU == 30
lbPR == 31
lbEB == 32
lbIDEM == 33
lbNUNU == 34
lbNUSY == 35
lbNUIS == 36
lbNUCL == 37
lbNUCP == 38
lbPO == 39
lbJL == 40
lbJV == 41
lbJT == 42
lbH2 == 43
lbH3 == 44
lbOddRI == 45
lbEvenRI == 46
lbExtPicCn == 47
lbAK == 48
lbAP == 49
lbAS == 50
lbAKVI == 51
lbHH == 52
lbCPHY == 53
lbDottedCircle == 54
lbZWJBit == 128
lbCPeaFWHBit == 256
lbSotBit == 512
\* Boundary masks and shifts, state token layout (step.go)
MaskLine == 3
MaskWord == 4
MaskSentence == 8
ShiftWidth == 4
shiftWord == 2
shiftSentence == 3
shiftWordState == 12
shiftSentenceState == 17
shiftLineState == 21
shiftPropState == 37
maskGraphemeState == 4095
maskWordState == 31
maskSentenceState == 15
maskLineState == 65535

\* Variation selectors (properties.go)
vs15 == 65038
vs16 == 65039

\* utf8.RuneError, the code point decoded from malformed input
RuneError == 65533

\* Dotted circle, recognised by code point in the line machine
DottedCircle == 9676

(***************************************************************************)
(* Integer helpers: Go's shifts and bitwise operators on non-negative      *)
(* operands (x & mask with mask = 2^k - 1 is x % 2^k, also for negative x  *)
(* in two's complement).                                                   *)
(***************************************************************************)
RECURSIVE Pow2(_)
Pow2(n) == IF n = 0 THEN 1 ELSE 2 * Pow2(n - 1)

Shl(x, n) == x * Pow2(n)

Shr(x, n) == x \div Pow2(n)

RECURSIVE BitOr(_, _)
BitOr(x, y) ==
    IF x = 0 THEN y
    ELSE IF y = 0 THEN x
    ELSE (IF x % 2 = 1 \/ y % 2 = 1 THEN 1 ELSE 0) + 2 * BitOr(x \div 2, y \div 2)

RECURSIVE BitAnd(_, _)
BitAnd(x, y) ==
    IF x = 0 \/ y = 0 THEN 0
    ELSE (IF x % 2 = 1 /\ y % 2 = 1 THEN 1 ELSE 0) + 2 * BitAnd(x \div 2, y \div 2)

\* x &^ y (bit clear)
BitClear(x, y) == x - BitAnd(x, y)

SubSeqFrom(s, n) == SubSeq(s, n + 1, Len(s))

SubSeqTo(s, n) == SubSeq(s, 1, n)

(***************************************************************************)
(* Property tables.  The generated tables of the package are sorted,      *)
(* non-overlapping ranges [start, end, property(, general category)];     *)
(* each table keeps the rows of the code points the model feeds it, with  *)
(* their Unicode 17.0 values.                                              *)
(***************************************************************************)
lineBreakCodePoints ==
    << <<10, 10, prLF, gcCc>>,
       <<11, 12, prBK, gcCc>>,
       <<13, 13, prCR, gcCc>>,
       <<32, 32, prSP, gcZs>>,
       <<33, 33, prEX, gcPo>>,
       <<34, 34, prQU, gcPo>>,
       <<36, 36, prPR, gcSc>>,
       <<37, 37, prPO, gcPo>>,
       <<40, 40, prOP, gcPs>>,
       <<41, 41, prCP, gcPe>>,
       <<45, 45, prHY, gcPd>>,
       <<46, 46, prIS, gcPo>>,
       <<47, 47, prSY, gcPo>>,
       <<125, 125, prCL, gcPe>>,
       <<133, 133, prNL, gcCc>>,
       <<160, 160, prGL, gcZs>>,
       <<167, 167, prAI, gcPo>>,
       <<171, 171, prQU, gcPi>>,
       <<180, 180, prBB, gcSk>>,
       <<187, 187, prQU, gcPf>>,
       <<768, 846, prCM, gcMn>>,
       <<1488, 1488, prHL, gcLo>>,
       <<1536, 1536, prNU, gcCf>>,
       <<2307, 2307, prCM, gcMc>>,
       <<2325, 2325, prAL, gcLo>>,
       <<2381, 2381, prCM, gcMn>>,
       <<3585, 3585, prSA, gcLo>>,
       <<3633, 3633, prSA, gcMn>>,
       <<4352, 4352, prJL, gcLo>>,
       <<4449, 4449, prJV, gcLo>>,
       <<4520, 4520, prJT, gcLo>>,
       <<6917, 6917, prAK, gcLo>>,
       <<6980, 6980, prVI, gcMc>>,
       <<7104, 7104, prAS, gcLo>>,
       <<7154, 7154, prVF, gcMc>>,
       <<8201, 8201, prBA, gcZs>>,
       <<8203, 8203, prZW, gcCf>>,
       <<8205, 8205, prZWJ, gcCf>>,
       <<8208, 8208, prHH, gcPd>>,
       <<8212, 8212, prB2, gcPd>>,
       <<8230, 8230, prIN, gcPo>>,
       <<8232, 8232, prBK, gcZl>>,
       <<8288, 8288, prWJ, gcCf>>,
       <<DottedCircle, DottedCircle, prAL, gcSo>>,
       <<10084, 10084, prID, gcSo>>,
       <<12293, 12293, prNS, gcLm>>,
       <<12353, 12353, prCJ, gcLo>>,
       <<19990, 19990, prID, gcLo>>,
       <<44032, 44032, prH2, gcLo>>,
       <<44033, 44033, prH3, gcLo>>,
       <<57344, 57344, prXX, gcCo>>,
       <<vs15, vs16, prCM, gcMn>>,
       <<65288, 65288, prOP, gcPs>>,
       <<65532, 65532, prCB, gcSo>>,
       <<RuneError, RuneError, prAI, gcSo>>,
       <<69635, 69635, prAP, gcLo>>,
       <<127020, 127020, prID, gcCn>>,
       <<127462, 127462, prRI, gcSo>>,
       <<127995, 127995, prEM, gcSk>>,
       <<128102, 128102, prEB, gcSo>>,
       <<128512, 128512, prID, gcSo>> >>

graphemeCodePoints ==
    << <<133, 133, prControl>>,
       <<768, 879, prExtend>>,
       <<1536, 1536, prPrepend>>,
       <<2307, 2307, prSpacingMark>>,
       <<2381, 2381, prExtend>>,
       <<3633, 3633, prExtend>>,
       <<4352, 4352, prL>>,
       <<4449, 4449, prV>>,
       <<4520, 4520, prT>>,
       <<8203, 8203, prControl>>,
       <<8205, 8205, prZWJ>>,
       <<8232, 8232, prControl>>,
       <<8288, 8288, prControl>>,
       <<10084, 10084, prExtendedPictographic>>,
       <<44032, 44032, prLV>>,
       <<44033, 44033, prLVT>>,
       <<vs15, vs16, prExtend>>,
       <<127020, 127020, prExtendedPictographic>>,
       <<127462, 127462, prRegionalIndicator>>,
       <<127995, 127995, prExtend>>,
       <<128102, 128102, prExtendedPictographic>>,
       <<128512, 128512, prExtendedPictographic>> >>

eastAsianWidth ==
    << <<167, 167, prA>>,
       <<180, 180, prA>>,
       <<768, 879, prA>>,
       <<4352, 4352, prW>>,
       <<8208, 8208, prA>>,
       <<8212, 8212, prA>>,
       <<8230, 8230, prA>>,
       <<12293, 12293, prW>>,
       <<12353, 12353, prW>>,
       <<19990, 19990, prW>>,
       <<44032, 44033, prW>>,
       <<57344, 57344, prA>>,
       <<vs15, vs16, prA>>,
       <<65288, 65288, prF>>,
       <<RuneError, RuneError, prA>>,
       <<127995, 127995, prW>>,
       <<128102, 128102, prW>>,
       <<128512, 128512, prW>> >>

incbCodePoints ==
    << <<768, 846, prInCBExtend>>,
       <<2325, 2325, prInCBConsonant>>,
       <<2381, 2381, prInCBLinker>>,
       <<8205, 8205, prInCBExtend>>,
       <<vs15, vs16, prInCBExtend>>,
       <<127995, 127995, prInCBExtend>> >>

\* The zero-initialized entry returned when no range holds the rune.
ZeroEntry == <<0, 0, 0, 0>>

\* The binary search of propertySearch over dictionary[from+1 .. to]
\* (from and to are the 0-based bounds of the Go loop).
RECURSIVE propertySearchLoop(_, _, _, _)
propertySearchLoop(dictionary, r, from, to) ==
    IF to > from
    THEN LET middle == (from + to) \div 2
             cpRange == dictionary[middle + 1]
         IN  IF r < cpRange[1] THEN propertySearchLoop(dictionary, r, from, middle)
             ELSE IF r > cpRange[2] THEN propertySearchLoop(dictionary, r, middle + 1, to)
             ELSE cpRange
    ELSE ZeroEntry

propertySearch(dictionary, r) == propertySearchLoop(dictionary, r, 0, Len(dictionary))

property(dictionary, r) == propertySearch(dictionary, r)[3]

\* Returns <<property, generalCategory>>.
propertyLineBreak(r) ==
    IF r >= 97 /\ r <= 122 THEN <<prAL, gcLl>>
    ELSE IF r >= 65 /\ r <= 90 THEN <<prAL, gcLu>>
    ELSE IF r >= 48 /\ r <= 57 THEN <<prNU, gcNd>>
    ELSE LET entry == propertySearch(lineBreakCodePoints, r)
         IN  <<entry[3], entry[4]>>

propertyGraphemes(r) ==
    IF r >= 32 /\ r <= 126 THEN prAny
    ELSE IF r = 10 THEN prLF
    ELSE IF r = 13 THEN prCR
    ELSE IF (r >= 0 /\ r <= 31) \/ r = 127 THEN prControl
    ELSE property(graphemeCodePoints, r)

propertyEastAsianWidth(r) ==
    IF r >= 32 /\ r <= 126 THEN prNa
    ELSE IF (r >= 0 /\ r <= 31) \/ r = 127 THEN prN
    ELSE property(eastAsianWidth, r)

propertyInCB(r) ==
    IF r < 768 THEN prInCBNone
    ELSE property(incbCodePoints, r)

(***************************************************************************)
(* utf8.DecodeRune / utf8.DecodeRuneInString: <<rune, length>> of the      *)
(* first code point of a byte sequence; malformed or truncated input       *)
(* decodes to RuneError with length 1, empty input to RuneError with       *)
(* length 0.                                                               *)
(***************************************************************************)
IsCont(x) == x >= 128 /\ x <= 191

DecodeRune(b) ==
    IF Len(b) = 0 THEN <<RuneError, 0>>
    ELSE LET b0 == b[1]
         IN  IF b0 < 128 THEN <<b0, 1>>
             ELSE IF b0 >= 194 /\ b0 <= 223
             THEN IF Len(b) >= 2 /\ IsCont(b[2])
                  THEN <<(b0 % 32) * 64 + (b[2] % 64), 2>>
                  ELSE <<RuneError, 1>>
             ELSE IF b0 >= 224 /\ b0 <= 239
             THEN IF /\ Len(b) >= 3
                     /\ IsCont(b[2])
                     /\ IsCont(b[3])
                     /\ (b0 = 224 => b[2] >= 160)
                     /\ (b0 = 237 => b[2] <= 159)
                  THEN <<(b0 % 16) * 4096 + (b[2] % 64) * 64 + (b[3] % 64), 3>>
                  ELSE <<RuneError, 1>>
             ELSE IF b0 >= 240 /\ b0 <= 244
             THEN IF /\ Len(b) >= 4
                     /\ IsCont(b[2])
                     /\ IsCont(b[3])
                     /\ IsCont(b[4])
                     /\ (b0 = 240 => b[2] >= 144)
                     /\ (b0 = 244 => b[2] <= 143)
                  THEN <<(b0 % 8) * 262144 + (b[2] % 64) * 4096
                           + (b[3] % 64) * 64 + (b[4] % 64), 4>>
                  ELSE <<RuneError, 1>>
             ELSE <<RuneError, 1>>

(***************************************************************************)
(* The grapheme cluster parser.                                            *)
(***************************************************************************)
\* <<newState, breaking instruction, rule>>, all -1 when no transition exists.
grTransitions(state, prop) ==
    CASE state = grAny /\ prop = prCR -> <<grCR, grBoundary, 50>>
      [] state = grAny /\ prop = prLF -> <<grControlLF, grBoundary, 50>>
      [] state = grAny /\ prop = prControl -> <<grControlLF, grBoundary, 50>>
      [] state = grCR /\ prop = prAny -> <<grAny, grBoundary, 40>>
      [] state = grControlLF /\ prop = prAny -> <<grAny, grBoundary, 40>>
      [] state = grCR /\ prop = prLF -> <<grControlLF, grNoBoundary, 30>>
      [] state = grAny /\ prop = prL -> <<grL, grBoundary, 9990>>
      [] state = grL /\ prop = prL -> <<grL, grNoBoundary, 60>>
      [] state = grL /\ prop = prV -> <<grLVV, grNoBoundary, 60>>
      [] state = grL /\ prop = prLV -> <<grLVV, grNoBoundary, 60>>
      [] state = grL /\ prop = prLVT -> <<grLVTT, grNoBoundary, 60>>
      [] state = grAny /\ prop = prLV -> <<grLVV, grBoundary, 9990>>
      [] state = grAny /\ prop = prV -> <<grLVV, grBoundary, 9990>>
      [] state = grLVV /\ prop = prV -> <<grLVV, grNoBoundary, 70>>
      [] state = grLVV /\ prop = prT -> <<grLVTT, grNoBoundary, 70>>
      [] state = grAny /\ prop = prLVT -> <<grLVTT, grBoundary, 9990>>
      [] state = grAny /\ prop = prT -> <<grLVTT, grBoundary, 9990>>
      [] state = grLVTT /\ prop = prT -> <<grLVTT, grNoBoundary, 80>>
      [] state = grAny /\ prop = prExtend -> <<grAny, grNoBoundary, 90>>
      [] state = grAny /\ prop = prZWJ -> <<grAny, grNoBoundary, 90>>
      [] state = grAny /\ prop = prSpacingMark -> <<grAny, grNoBoundary, 91>>
      [] state = grAny /\ prop = prPrepend -> <<grPrepend, grBoundary, 9990>>
      [] state = grPrepend /\ prop = prAny -> <<grAny, grNoBoundary, 92>>
      [] state = grAny /\ prop = prExtendedPictographic ->
            <<grExtendedPictographic, grBoundary, 9990>>
      [] state = grExtendedPictographic /\ prop = prExtend ->
            <<grExtendedPictographic, grNoBoundary, 110>>
      [] state = grExtendedPictographic /\ prop = prZWJ ->
            <<grExtendedPictographicZWJ, grNoBoundary, 110>>
      [] state = grExtendedPictographicZWJ /\ prop = prExtendedPictographic ->
            <<grExtendedPictographic, grNoBoundary, 110>>
      [] state = grAny /\ prop = prRegionalIndicator -> <<grRIOdd, grBoundary, 9990>>
      [] state = grRIOdd /\ prop = prRegionalIndicator -> <<grRIEven, grNoBoundary, 120>>
      [] state = grRIEven /\ prop = prRegionalIndicator -> <<grRIOdd, grBoundary, 120>>
      [] OTHER -> <<-1, -1, -1>>

\* grBaseTransition without the parity of regional indicators: an even
\* run is taken for an odd one, so every indicator joins the one before.
grBaseTransitionNoParity(state, prop) ==
    LET st == IF state = grRIEven THEN grRIOdd ELSE state
        next == grTransitions(st, prop)
    IN  IF next[1] >= 0 THEN <<next[1], next[2] = grBoundary>>
        ELSE LET anyProp == grTransitions(st, prAny)
                 anyState == grTransitions(grAny, prop)
             IN  IF anyProp[1] >= 0 /\ anyState[1] >= 0
                 THEN <<anyState[1],
                        IF anyProp[3] < anyState[3]
                        THEN anyProp[2] = grBoundary
                        ELSE anyState[2] = grBoundary>>
                 ELSE IF anyProp[1] >= 0 THEN <<anyProp[1], anyProp[2] = grBoundary>>
                 ELSE IF anyState[1] >= 0 THEN <<anyState[1], anyState[2] = grBoundary>>
                 ELSE <<grAny, TRUE>>

\* grBaseTransition without GB11: the ZWJ after an emoji is forgotten.
grBaseTransitionNoGB11(state, prop) ==
    LET st == IF state = grExtendedPictographicZWJ THEN grAny ELSE state
        next == grTransitions(st, prop)
    IN  IF next[1] >= 0 THEN <<next[1], next[2] = grBoundary>>
        ELSE LET anyProp == grTransitions(st, prAny)
                 anyState == grTransitions(grAny, prop)
             IN  IF anyProp[1] >= 0 /\ anyState[1] >= 0
                 THEN <<anyState[1],
                        IF anyProp[3] < anyState[3]
                        THEN anyProp[2] = grBoundary
                        ELSE anyState[2] = grBoundary>>
                 ELSE IF anyProp[1] >= 0 THEN <<anyProp[1], anyProp[2] = grBoundary>>
                 ELSE IF anyState[1] >= 0 THEN <<anyState[1], anyState[2] = grBoundary>>
                 ELSE <<grAny, TRUE>>

\* grBaseTransition taking the verdict of (Any, class) whenever both
\* wildcard entries exist, whatever the rule numbers.
grBaseTransitionNoRule(state, prop) ==
    LET next == grTransitions(state, prop)
    IN  IF next[1] >= 0 THEN <<next[1], next[2] = grBoundary>>
        ELSE LET anyProp == grTransitions(state, prAny)
                 anyState == grTransitions(grAny, prop)
             IN  IF anyState[1] >= 0 THEN <<anyState[1], anyState[2] = grBoundary>>
                 ELSE IF anyProp[1] >= 0 THEN <<anyProp[1], anyProp[2] = grBoundary>>
                 ELSE <<grAny, TRUE>>

\* The base transition of transitionGraphemeState (before GB9c):
\* <<newState, boundary>> for the masked state and the property.
grBaseTransition(state, prop) ==
    LET next == grTransitions(state, prop)
    IN  IF next[1] >= 0 THEN <<next[1], next[2] = grBoundary>>
        ELSE LET anyProp == grTransitions(state, prAny)
                 anyState == grTransitions(grAny, prop)
             IN  IF anyProp[1] >= 0 /\ anyState[1] >= 0
                 THEN <<anyState[1],
                        IF anyProp[3] < anyState[3]
                        THEN anyProp[2] = grBoundary
                        ELSE anyState[2] = grBoundary>>
                 ELSE IF anyProp[1] >= 0 THEN <<anyProp[1], anyProp[2] = grBoundary>>
                 ELSE IF anyState[1] >= 0 THEN <<anyState[1], anyState[2] = grBoundary>>
                 ELSE <<grAny, TRUE>>

\* transitionGraphemeState with GB9c applied to every rune: after a linker
\* there is no boundary, whatever follows.
transitionGraphemeStateLinkerJoins(state, r) ==
    LET prop == propertyGraphemes(r)
        incbState == ((state \div 256) % 16) * 256
        incbProp == propertyInCB(r)
        t == grBaseTransition(state % 256, prop)
        boundary == IF incbState = grInCBLinker THEN FALSE ELSE t[2]
    IN  IF incbProp = prInCBConsonant
        THEN [state |-> BitOr(t[1], grInCBConsonant), prop |-> prop, boundary |-> boundary]
        ELSE IF incbProp = prInCBLinker
        THEN [state |-> IF incbState \in {grInCBConsonant, grInCBExtend, grInCBLinker}
                        THEN BitOr(t[1], grInCBLinker) ELSE t[1],
              prop |-> prop, boundary |-> boundary]
        ELSE IF incbProp = prInCBExtend
        THEN [state |-> IF incbState \in {grInCBConsonant, grInCBExtend}
                        THEN BitOr(t[1], grInCBExtend)
                        ELSE IF incbState = grInCBLinker THEN BitOr(t[1], grInCBLinker)
                        ELSE t[1],
              prop |-> prop, boundary |-> boundary]
        ELSE [state |-> t[1], prop |-> prop, boundary |-> boundary]

\* transitionGraphemeState without the GB9c tracking: the base transition
\* alone.
transitionGraphemeStateNoGB9c(state, r) ==
    LET prop == propertyGraphemes(r)
        t == grBaseTransition(state % 256, prop)
    IN  [state |-> t[1], prop |-> prop, boundary |-> t[2]]

\* A variant of transitionGraphemeState with a boundary before every rune.
transitionGraphemeStateAlways(state, r) ==
    [state |-> grAny, prop |-> propertyGraphemes(r), boundary |-> TRUE]

\* [state, prop, boundary]: the new state (base state | InCB bits), the
\* rune's grapheme property and whether a cluster boundary precedes the rune.
\* state may be the negative sentinel: its low bits are all ones.
transitionGraphemeState(state, r) ==
    LET prop == propertyGraphemes(r)
        incbState == ((state \div 256) % 16) * 256
        base == state % 256
        incbProp == propertyInCB(r)
        t == grBaseTransition(base, prop)
    IN  IF incbProp = prInCBConsonant
        THEN [state |-> BitOr(t[1], grInCBConsonant), prop |-> prop,
              boundary |-> IF incbState = grInCBLinker THEN FALSE ELSE t[2]]
        ELSE IF incbProp = prInCBLinker
        THEN [state |-> IF incbState \in {grInCBConsonant, grInCBExtend, grInCBLinker}
                        THEN BitOr(t[1], grInCBLinker) ELSE t[1],
              prop |-> prop, boundary |-> t[2]]
        ELSE IF incbProp = prInCBExtend
        THEN [state |-> IF incbState = grInCBConsonant THEN BitOr(t[1], grInCBExtend)
                        ELSE IF incbState = grInCBExtend THEN BitOr(t[1], grInCBExtend)
                        ELSE IF incbState = grInCBLinker THEN BitOr(t[1], grInCBLinker)
                        ELSE t[1],
              prop |-> prop, boundary |-> t[2]]
        ELSE [state |-> t[1], prop |-> prop, boundary |-> t[2]]

(***************************************************************************)
(* The context-based line breaking machine.  A LineContext is a record     *)
(* [State, Flags]; a transition returns [ctx, lb].                         *)
(***************************************************************************)
LineContext(state, flags) == [State |-> state, Flags |-> flags]

HasFlag(flags, bit) == BitAnd(flags, bit) # 0

\* packLineContext with the flags one bit short, onto the base state.
packLineContextNarrow(ctx) == BitOr(Shl(ctx.Flags, 7), ctx.State % 256)

packLineContext(ctx) == BitOr(Shl(ctx.Flags, 8), ctx.State % 256)

unpackLineContext(packed) ==
    IF packed < 0
    THEN LineContext(-1, lbCtxSot)
    ELSE LineContext(packed % 256, Shr(packed, 8) % 256)

propToState(prop) ==
    CASE prop = prBK -> lbcBK
      [] prop = prCR -> lbcCR
      [] prop = prLF -> lbcLF
      [] prop = prNL -> lbcNL
      [] prop = prSP -> lbcSP
      [] prop = prZW -> lbcZW
      [] prop = prWJ -> lbcWJ
      [] prop = prGL -> lbcGL
      [] prop = prBA -> lbcBA
      [] prop = prHY -> lbcHY
      [] prop = prCL -> lbcCL
      [] prop = prCP -> lbcCP
      [] prop = prEX -> lbcEX
      [] prop = prIS -> lbcIS
      [] prop = prSY -> lbcSY
      [] prop = prOP -> lbcOP
      [] prop = prQU -> lbcQU
      [] prop = prNS -> lbcNS
      [] prop = prAL -> lbcAL
      [] prop = prHL -> lbcHL
      [] prop = prNU -> lbcNU
      [] prop = prPR -> lbcPR
      [] prop = prPO -> lbcPO
      [] prop = prID -> lbcID
      [] prop = prEB -> lbcEB
      [] prop = prEM -> lbcEM
      [] prop = prIN -> lbcIN
      [] prop = prCB -> lbcCB
      [] prop = prRI -> lbcRI
      [] prop = prZWJ -> lbcZWJ
      [] prop = prCM -> lbcCM
      [] prop = prAK -> lbcAK
      [] prop = prAP -> lbcAP
      [] prop = prAS -> lbcAS
      [] prop = prVI -> lbcVI
      [] prop = prVF -> lbcVF
      [] prop = prHH -> lbcHH
      [] prop = prB2 -> lbcB2
      [] prop = prBB -> lbcBB
      [] prop = prExtendedPictographic -> lbcExtPic
      [] prop = prH2 -> lbcH2
      [] prop = prH3 -> lbcH3
      [] prop = prJL -> lbcJL
      [] prop = prJV -> lbcJV
      [] prop = prJT -> lbcJT
      [] OTHER -> lbcAL

IsEAWide(r) == propertyEastAsianWidth(r) \in {prF, prW, prH}

nextContext(ctx, newState, prop, r, genCat) ==
    LET f0 == ctx.Flags
        f1 == IF prop = prQU /\ genCat = gcPi THEN BitOr(f0, lbCtxAfterQUPi) ELSE f0
        f2 == IF prop = prSP /\ HasFlag(ctx.Flags, lbCtxAfterQUPi)
              THEN BitOr(f1, lbCtxQUPiSP) ELSE f1
        f3 == IF prop = prCP
              THEN IF IsEAWide(r) THEN BitOr(f2, lbCtxCPeaFWH)
                   ELSE BitClear(f2, lbCtxCPeaFWH)
              ELSE f2
    IN  LineContext(newState, f3)

\* A variant of applyBreak that never allows a break.
applyBreakNever(ctx, prop, r, genCat, breakType) ==
    [ctx |-> nextContext(ctx, propToState(prop), prop, r, genCat),
     lb |-> LineDontBreak]

\* A variant of applyBreak that takes the text to start again after a
\* mandatory break.
applyBreakRestarts(ctx, prop, r, genCat, breakType) ==
    LET newCtx == nextContext(ctx, propToState(prop), prop, r, genCat)
        flags == BitClear(BitClear(newCtx.Flags, lbCtxQUPiSP), lbCtxAfterQUPi)
    IN  [ctx |-> LineContext(newCtx.State,
                             IF breakType = LineMustBreak THEN BitOr(flags, lbCtxSot)
                             ELSE BitClear(flags, lbCtxSot)),
         lb |-> breakType]

applyBreak(ctx, prop, r, genCat, breakType) ==
    LET newCtx == nextContext(ctx, propToState(prop), prop, r, genCat)
        flags == BitClear(BitClear(BitClear(newCtx.Flags, lbCtxSot), lbCtxQUPiSP),
                          lbCtxAfterQUPi)
    IN  [ctx |-> LineContext(newCtx.State, flags), lb |-> breakType]

\* applyLB25 without the case NU x (PO|PR).
applyLB25NoPostfix(ctx, prop) ==
    IF ctx.State \in {lbcPO, lbcPR, lbcHY, lbcIS, lbcNU} /\ prop = prNU
    THEN LineDontBreak
    ELSE -1

\* -1 when no LB25 rule applies.
applyLB25(ctx, prop) ==
    IF ctx.State = lbcNU /\ prop \in {prPO, prPR} THEN LineDontBreak
    ELSE IF ctx.State \in {lbcPO, lbcPR, lbcHY, lbcIS, lbcNU} /\ prop = prNU
    THEN LineDontBreak
    ELSE -1

\* -1 when no LB28a rule applies.
applyLB28a(ctx, prop, isDottedCircle) ==
    IF ctx.State = lbcAP /\ (prop = prAK \/ prop = prAS \/ isDottedCircle)
    THEN LineDontBreak
    ELSE IF ctx.State \in {lbcAK, lbcDottedCircle, lbcAS} /\ prop \in {prVF, prVI}
    THEN LineDontBreak
    ELSE IF ctx.State = lbcAKVI /\ (prop = prAK \/ prop = prAS \/ isDottedCircle)
    THEN LineDontBreak
    ELSE -1

\* LB1: resolve ambiguous properties.
lb1Resolve(prop, genCat) ==
    IF prop \in {prAI, prSG, prXX} THEN prAL
    ELSE IF prop = prSA THEN (IF genCat = gcMn \/ genCat = gcMc THEN prCM ELSE prAL)
    ELSE IF prop = prCJ THEN prNS
    ELSE prop

\* A transition that keeps the flags (nextContext) and does not break.
Stay(ctx, newState, prop, r, genCat) ==
    [ctx |-> nextContext(ctx, newState, prop, r, genCat), lb |-> LineDontBreak]

\* A transition through nextContext with the given verdict.
Move(ctx, newState, prop, r, genCat, verdict) ==
    [ctx |-> nextContext(ctx, newState, prop, r, genCat), lb |-> verdict]

\* LB31 and the emoji rules (LB30a, LB30b): the tail of the rule chain.
lbEmoji(ctx, prop, r, genCat) ==
    IF prop = prRI
    THEN IF ctx.State \in {lbcRIOdd, lbcRI}
         THEN Stay(ctx, lbcRIEven, prop, r, genCat)
         ELSE Move(ctx, lbcRIOdd, prop, r, genCat, LineCanBreak)
    ELSE IF ctx.State \in {lbcEB, lbcExtPic, lbcExtPicCn, lbcExtPicZWJ} /\ prop = prEM
    THEN Stay(ctx, lbcEM, prop, r, genCat)
    ELSE IF prop = prExtendedPictographic
    THEN Move(ctx, lbcExtPic, prop, r, genCat, LineCanBreak)
    ELSE IF propertyGraphemes(r) = prExtendedPictographic /\ genCat = gcCn
    THEN Move(ctx, lbcExtPicCn, prop, r, genCat, LineCanBreak)
    ELSE applyBreak(ctx, prop, r, genCat, LineCanBreak)

\* LB28, LB29, LB30.
\* lbAlpha without LB28 ((AL|HL) x (AL|HL)).
lbAlphaNoLB28(ctx, prop, r, genCat) ==
    IF ctx.State = lbcIS /\ prop \in {prAL, prHL}
    THEN Stay(ctx, propToState(prop), prop, r, genCat)
    ELSE IF /\ ctx.State \in {lbcAL, lbcHL, lbcNU, lbcDottedCircle}
            /\ prop = prOP
            /\ ~IsEAWide(r)
    THEN Stay(ctx, lbcOP, prop, r, genCat)
    ELSE IF /\ ctx.State = lbcCP
            /\ ~HasFlag(ctx.Flags, lbCtxCPeaFWH)
            /\ prop \in {prAL, prHL, prNU}
    THEN Stay(ctx, propToState(prop), prop, r, genCat)
    ELSE lbEmoji(ctx, prop, r, genCat)

lbAlpha(ctx, prop, r, genCat) ==
    IF ctx.State \in {lbcAL, lbcHL, lbcDottedCircle} /\ prop \in {prAL, prHL}
    THEN Stay(ctx, propToState(prop), prop, r, genCat)
    ELSE IF ctx.State = lbcIS /\ prop \in {prAL, prHL}
    THEN Stay(ctx, propToState(prop), prop, r, genCat)
    ELSE IF /\ ctx.State \in {lbcAL, lbcHL, lbcNU, lbcDottedCircle}
            /\ prop = prOP
            /\ ~IsEAWide(r)
    THEN Stay(ctx, lbcOP, prop, r, genCat)
    ELSE IF /\ ctx.State = lbcCP
            /\ ~HasFlag(ctx.Flags, lbCtxCPeaFWH)
            /\ prop \in {prAL, prHL, prNU}
    THEN Stay(ctx, propToState(prop), prop, r, genCat)
    ELSE lbEmoji(ctx, prop, r, genCat)

\* LB28a and the dotted circle.
lbAksara(ctx, prop, r, genCat) ==
    LET isDottedCircle == r = DottedCircle
        breakDecision == applyLB28a(ctx, prop, isDottedCircle)
    IN  IF breakDecision # -1
        THEN LET newState ==
                     IF prop = prAK \/ prop = prAS THEN lbcAK
                     ELSE IF isDottedCircle THEN lbcDottedCircle
                     ELSE IF prop = prVI
                     THEN IF ctx.State \in {lbcAK, lbcAS, lbcDottedCircle}
                          THEN lbcAKVI ELSE lbcVI
                     ELSE propToState(prop)
                 newCtx == nextContext(ctx, newState, prop, r, genCat)
                 flags == IF prop = prVI \/ prop = prVF
                          THEN BitOr(newCtx.Flags, lbCtxAksaraVirama)
                          ELSE IF prop # prCM /\ prop # prZWJ
                          THEN BitClear(newCtx.Flags, lbCtxAksaraVirama)
                          ELSE newCtx.Flags
             IN  [ctx |-> LineContext(newCtx.State, flags), lb |-> breakDecision]
        ELSE IF isDottedCircle
        THEN Move(ctx, lbcDottedCircle, prop, r, genCat,
                IF ctx.State \in {lbcAL, lbcHL, lbcDottedCircle} THEN LineDontBreak
                ELSE IF ctx.State \in {lbcPR, lbcPO} THEN LineDontBreak
                ELSE IF ctx.State = lbcNU THEN LineDontBreak
                ELSE IF ctx.State = lbcIS THEN LineDontBreak
                ELSE IF ctx.State = lbcCP /\ ~HasFlag(ctx.Flags, lbCtxCPeaFWH)
                THEN LineDontBreak
                ELSE LineCanBreak)
        ELSE IF prop = prAK \/ prop = prAS
        THEN Move(ctx, lbcAK, prop, r, genCat, LineCanBreak)
        ELSE IF prop = prAP THEN Move(ctx, lbcAP, prop, r, genCat, LineCanBreak)
        ELSE IF prop = prVF THEN Move(ctx, lbcVF, prop, r, genCat, LineCanBreak)
        ELSE IF prop = prVI THEN Move(ctx, lbcVI, prop, r, genCat, LineCanBreak)
        ELSE lbAlpha(ctx, prop, r, genCat)

\* LB26, LB27.
lbKorean(ctx, prop, r, genCat) ==
    LET isKorean == ctx.State \in {lbcJL, lbcJV, lbcJT, lbcH2, lbcH3}
    IN  IF ctx.State = lbcJL /\ prop \in {prJL, prJV, prH2, prH3}
        THEN Stay(ctx, propToState(prop), prop, r, genCat)
        ELSE IF ctx.State \in {lbcJV, lbcH2} /\ prop \in {prJV, prJT}
        THEN Stay(ctx, propToState(prop), prop, r, genCat)
        ELSE IF ctx.State \in {lbcJT, lbcH3} /\ prop = prJT
        THEN Stay(ctx, lbcJT, prop, r, genCat)
        ELSE IF isKorean /\ prop \in {prIN, prPO}
        THEN Stay(ctx, propToState(prop), prop, r, genCat)
        ELSE IF ctx.State = lbcPR /\ prop \in {prJL, prJV, prJT, prH2, prH3}
        THEN Stay(ctx, propToState(prop), prop, r, genCat)
        ELSE lbAksara(ctx, prop, r, genCat)

\* lbNumbers returning the decision of applyLB25 without testing it for
\* the 'no rule applies' marker.
lbNumbersUnchecked(ctx, prop, r, genCat) ==
    LET breakDecision == applyLB25(ctx, prop)
    IN  IF prop = prIN THEN Stay(ctx, lbcIN, prop, r, genCat)
        ELSE IF ctx.State \in {lbcAL, lbcHL, lbcDottedCircle} /\ prop = prNU
        THEN Stay(ctx, lbcNU, prop, r, genCat)
        ELSE IF ctx.State = lbcNU /\ prop \in {prAL, prHL}
        THEN Stay(ctx, propToState(prop), prop, r, genCat)
        ELSE IF ctx.State = lbcPR /\ prop \in {prID, prEB, prEM}
        THEN Stay(ctx, propToState(prop), prop, r, genCat)
        ELSE IF /\ ctx.State \in {lbcID, lbcEB, lbcEM, lbcExtPic, lbcExtPicCn}
                /\ prop = prPO
        THEN Stay(ctx, lbcPO, prop, r, genCat)
        ELSE IF ctx.State \in {lbcPR, lbcPO} /\ prop \in {prAL, prHL}
        THEN Stay(ctx, propToState(prop), prop, r, genCat)
        ELSE IF ctx.State \in {lbcAL, lbcHL, lbcDottedCircle} /\ prop \in {prPR, prPO}
        THEN Stay(ctx, propToState(prop), prop, r, genCat)
        ELSE Move(ctx, propToState(prop), prop, r, genCat, breakDecision)

\* LB22 - LB25.
lbNumbers(ctx, prop, r, genCat) ==
    LET breakDecision == applyLB25(ctx, prop)
    IN  IF prop = prIN THEN Stay(ctx, lbcIN, prop, r, genCat)
        ELSE IF ctx.State \in {lbcAL, lbcHL, lbcDottedCircle} /\ prop = prNU
        THEN Stay(ctx, lbcNU, prop, r, genCat)
        ELSE IF ctx.State = lbcNU /\ prop \in {prAL, prHL}
        THEN Stay(ctx, propToState(prop), prop, r, genCat)
        ELSE IF ctx.State = lbcPR /\ prop \in {prID, prEB, prEM}
        THEN Stay(ctx, propToState(prop), prop, r, genCat)
        ELSE IF /\ ctx.State \in {lbcID, lbcEB, lbcEM, lbcExtPic, lbcExtPicCn}
                /\ prop = prPO
        THEN Stay(ctx, lbcPO, prop, r, genCat)
        ELSE IF ctx.State \in {lbcPR, lbcPO} /\ prop \in {prAL, prHL}
        THEN Stay(ctx, propToState(prop), prop, r, genCat)
        ELSE IF ctx.State \in {lbcAL, lbcHL, lbcDottedCircle} /\ prop \in {prPR, prPO}
        THEN Stay(ctx, propToState(prop), prop, r, genCat)
        ELSE IF breakDecision # -1
        THEN Move(ctx, propToState(prop), prop, r, genCat, breakDecision)
        ELSE lbKorean(ctx, prop, r, genCat)

\* LB20.1, LB20, LB21, LB21a, LB21b.
\* A variant of lbHyphens without the rules LB20a to LB21b.
lbHyphensNone(ctx, prop, r, genCat) == lbNumbers(ctx, prop, r, genCat)

lbHyphens(ctx, prop, r, genCat) ==
    IF ctx.State = lbcHH /\ prop \in {prAL, prHL}
    THEN Stay(ctx, propToState(prop), prop, r, genCat)
    ELSE IF HasFlag(ctx.Flags, lbCtxSot) /\ ctx.State = lbcHY /\ prop \in {prAL, prHL}
    THEN Stay(ctx, propToState(prop), prop, r, genCat)
    ELSE IF prop = prCB THEN Move(ctx, lbcCB, prop, r, genCat, LineCanBreak)
    ELSE IF ctx.State = lbcCB THEN applyBreak(ctx, prop, r, genCat, LineCanBreak)
    ELSE IF prop \in {prBA, prHY, prNS, prHH}
    THEN Stay(ctx, propToState(prop), prop, r, genCat)
    ELSE IF ctx.State = lbcBB THEN Stay(ctx, propToState(prop), prop, r, genCat)
    ELSE IF ctx.State = lbcHLHY THEN Stay(ctx, propToState(prop), prop, r, genCat)
    ELSE IF ctx.State = lbcHL /\ prop \in {prHY, prBA}
    THEN [ctx |-> LineContext(lbcHLHY, ctx.Flags), lb |-> LineDontBreak]
    ELSE IF ctx.State = lbcSY /\ prop = prHL THEN Stay(ctx, lbcHL, prop, r, genCat)
    ELSE lbNumbers(ctx, prop, r, genCat)

\* LB15.1, LB15.2, LB16, LB17, LB18, LB19.
lbQuotes(ctx, prop, r, genCat, isEot) ==
    IF /\ HasFlag(ctx.Flags, lbCtxSot)
       /\ HasFlag(ctx.Flags, lbCtxQUPiSP)
       /\ prop = prOP
    THEN Stay(ctx, lbcOP, prop, r, genCat)
    ELSE IF /\ ctx.State \in {lbcSP, lbcB2SP, lbcCLCP, lbcQUSP}
            /\ prop = prQU
            /\ genCat = gcPf
            /\ isEot
    THEN Stay(ctx, lbcQU, prop, r, genCat)
    ELSE IF ctx.State \in {lbcCL, lbcCP, lbcCLCP} /\ prop = prNS
    THEN Stay(ctx, lbcNS, prop, r, genCat)
    ELSE IF ctx.State = lbcB2 /\ prop = prB2 THEN Stay(ctx, lbcB2, prop, r, genCat)
    ELSE IF ctx.State = lbcB2SP /\ prop = prB2 THEN Stay(ctx, lbcB2, prop, r, genCat)
    ELSE IF ctx.State \in {lbcSP, lbcQUSP, lbcB2SP, lbcCLCP}
    THEN applyBreak(ctx, prop, r, genCat, LineCanBreak)
    ELSE IF prop = prQU
    THEN Stay(ctx, IF genCat = gcPi THEN lbcQUPi ELSE lbcQU, prop, r, genCat)
    ELSE IF ctx.State \in {lbcQU, lbcQUPi, lbcQUPiSP}
    THEN Stay(ctx, propToState(prop), prop, r, genCat)
    ELSE lbHyphens(ctx, prop, r, genCat)

\* LB11, LB12, LB12a, LB13, LB14.
lbGlue(ctx, prop, r, genCat, isEot) ==
    LET isSpaceLike == ctx.State \in {lbcSP, lbcB2SP, lbcQUSP, lbcCLCP, lbcZWSP}
    IN  IF prop = prWJ \/ ctx.State = lbcWJ
        THEN Stay(ctx, propToState(prop), prop, r, genCat)
        ELSE IF ctx.State = lbcGL THEN Stay(ctx, propToState(prop), prop, r, genCat)
        ELSE IF /\ prop = prGL
                /\ ~isSpaceLike
                /\ ctx.State \notin {lbcBA, lbcHY, lbcHH, lbcHLHY}
        THEN Stay(ctx, lbcGL, prop, r, genCat)
        ELSE IF prop \in {prCL, prCP, prEX, prIS, prSY}
        THEN Stay(ctx, propToState(prop), prop, r, genCat)
        ELSE IF ctx.State \in {lbcOP, lbcOPSP}
        THEN Stay(ctx, propToState(prop), prop, r, genCat)
        ELSE lbQuotes(ctx, prop, r, genCat, isEot)

\* LB7, LB8, LB8a.
lbSpaces(ctx, prop, r, genCat, isEot) ==
    IF prop = prSP \/ prop = prZW
    THEN LET newState ==
                 IF prop = prZW THEN lbcZW
                 ELSE IF ctx.State \in {lbcZW, lbcZWSP} THEN lbcZWSP
                 ELSE IF ctx.State \in {lbcB2, lbcB2SP} THEN lbcB2SP
                 ELSE IF ctx.State \in {lbcCL, lbcCP, lbcCLCP} THEN lbcCLCP
                 ELSE IF ctx.State \in {lbcOP, lbcOPSP} THEN lbcOPSP
                 ELSE IF ctx.State \in {lbcQUPi, lbcQUPiSP} THEN lbcQUPiSP
                 ELSE lbcSP
             newCtx == nextContext(ctx, newState, prop, r, genCat)
         IN  [ctx |-> LineContext(newCtx.State, BitClear(newCtx.Flags, lbCtxAfterZWJ)),
              lb |-> LineDontBreak]
    ELSE IF ctx.State \in {lbcZW, lbcZWSP}
    THEN applyBreak(ctx, prop, r, genCat, LineCanBreak)
    ELSE IF HasFlag(ctx.Flags, lbCtxAfterZWJ)
    THEN LET newCtx == nextContext(ctx, propToState(prop), prop, r, genCat)
         IN  [ctx |-> LineContext(newCtx.State, BitClear(newCtx.Flags, lbCtxAfterZWJ)),
              lb |-> LineDontBreak]
    ELSE lbGlue(ctx, prop, r, genCat, isEot)

\* LB4, LB5, LB6.
\* A variant of lbMandatory without the rules LB4 to LB6.
lbMandatoryNone(ctx, prop, r, genCat, isEot) == lbSpaces(ctx, prop, r, genCat, isEot)

lbMandatory(ctx, prop, r, genCat, isEot) ==
    IF ctx.State = lbcBK THEN applyBreak(ctx, prop, r, genCat, LineMustBreak)
    ELSE IF ctx.State = lbcCR
    THEN IF prop = prLF
         THEN Stay(ctx, lbcLF, prop, r, genCat)
         ELSE applyBreak(ctx, prop, r, genCat, LineMustBreak)
    ELSE IF ctx.State = lbcLF \/ ctx.State = lbcNL
    THEN applyBreak(ctx, prop, r, genCat, LineMustBreak)
    ELSE IF prop \in {prBK, prCR, prLF, prNL}
    THEN Stay(ctx, propToState(prop), prop, r, genCat)
    ELSE lbSpaces(ctx, prop, r, genCat, isEot)

\* LB9, LB10: prop is CM or ZWJ.
lbCombining(ctx, prop, r, genCat) ==
    LET isSpaceLike == ctx.State \in {lbcSP, lbcB2SP, lbcQUSP, lbcCLCP, lbcZWSP}
        isMandatoryBreak == ctx.State \in {lbcBK, lbcCR, lbcLF, lbcNL, lbcZW}
        isInitial == ctx.State = lbcAny
        asAL == nextContext(ctx, lbcAL, prAL, r, genCat)
        newCtx == LineContext(asAL.State,
                              IF prop = prZWJ THEN BitOr(asAL.Flags, lbCtxAfterZWJ)
                              ELSE asAL.Flags)
    IN  IF ~isSpaceLike /\ ~isMandatoryBreak /\ ~isInitial
        THEN [ctx |-> LineContext(ctx.State,
                                  IF prop = prZWJ THEN BitOr(ctx.Flags, lbCtxAfterZWJ)
                                  ELSE BitClear(ctx.Flags, lbCtxAfterZWJ)),
              lb |-> LineDontBreak]
        ELSE IF isMandatoryBreak THEN [ctx |-> newCtx, lb |-> LineMustBreak]
        ELSE IF isSpaceLike THEN [ctx |-> newCtx, lb |-> LineCanBreak]
        ELSE [ctx |-> newCtx, lb |-> LineDontBreak]

\* transitionLineBreakContext starting a text without the StartOfText flag.
transitionLineBreakContextNoSot(ctx0, r, b, str) ==
    LET pg == propertyLineBreak(r)
        genCat == pg[2]
        prop == lb1Resolve(pg[1], genCat)
        ctx == IF ctx0.State < 0 THEN LineContext(lbcAny, 0) ELSE ctx0
        isEot == Len(b) = 0 /\ str = <<>>
    IN  IF prop = prCM \/ prop = prZWJ
        THEN lbCombining(ctx, prop, r, genCat)
        ELSE lbMandatory(ctx, prop, r, genCat, isEot)

\* b and str are the lookahead of the byte-slice and of the string variant;
\* only their emptiness is read (LB15.2).
transitionLineBreakContext(ctx0, r, b, str) ==
    LET pg == propertyLineBreak(r)
        genCat == pg[2]
        prop == lb1Resolve(pg[1], genCat)
        ctx == IF ctx0.State < 0 THEN LineContext(lbcAny, lbCtxSot) ELSE ctx0
        isEot == Len(b) = 0 /\ str = <<>>
    IN  IF prop = prCM \/ prop = prZWJ
        THEN lbCombining(ctx, prop, r, genCat)
        ELSE lbMandatory(ctx, prop, r, genCat, isEot)

\* <<new packed state, line break>>
transitionLineBreakStateContext(state, r, b, str) ==
    LET t == transitionLineBreakContext(unpackLineContext(state), r, b, str)
    IN  <<packLineContext(t.ctx), t.lb>>

(***************************************************************************)
(* The legacy, table-driven line break parser.                             *)
(***************************************************************************)
\* <<newState, lineBreak, rule>>, all -1 when no transition exists.
lbTransitions(state, prop) ==
    CASE state = lbAny /\ prop = prHH -> <<lbHH, LineDontBreak, 2102>>
      [] state = lbHH /\ prop = prAL -> <<lbAL, LineDontBreak, 201>>
      [] state = lbHH /\ prop = prHL -> <<lbHL, LineDontBreak, 201>>
      [] state = lbHH /\ prop = prHH -> <<lbHH, LineDontBreak, 2102>>
      [] state = lbHH /\ prop = prAny -> <<lbAny, LineCanBreak, 310>>
      [] state = lbCPHY /\ prop = prAL -> <<lbAL, LineCanBreak, 9990>>
      [] state = lbCPHY /\ prop = prHL -> <<lbHL, LineCanBreak, 9990>>
      [] state = lbCPHY /\ prop = prAny -> <<lbAny, LineCanBreak, 310>>
      [] state = lbAny /\ prop = prAK -> <<lbAK, LineCanBreak, 310>>
      [] state = lbAny /\ prop = prAP -> <<lbAP, LineCanBreak, 310>>
      [] state = lbAny /\ prop = prAS -> <<lbAS, LineCanBreak, 310>>
      [] state = lbAny /\ prop = prVF -> <<lbAny, LineCanBreak, 310>>
      [] state = lbAny /\ prop = prVI -> <<lbAny, LineCanBreak, 310>>
      [] state = lbAK /\ prop = prVF -> <<lbAny, LineDontBreak, 2812>>
      [] state = lbAK /\ prop = prVI -> <<lbAKVI, LineDontBreak, 2812>>
      [] state = lbAS /\ prop = prVF -> <<lbAny, LineDontBreak, 2812>>
      [] state = lbAS /\ prop = prVI -> <<lbAKVI, LineDontBreak, 2812>>
      [] state = lbDottedCircle /\ prop = prVF -> <<lbAny, LineDontBreak, 2812>>
      [] state = lbDottedCircle /\ prop = prVI -> <<lbAKVI, LineDontBreak, 2812>>
      [] state = lbDottedCircle /\ prop = prAny -> <<lbAny, LineCanBreak, 310>>
      [] state = lbDottedCircle /\ prop = prNU -> <<lbNU, LineDontBreak, 230>>
      [] state = lbDottedCircle /\ prop = prPR -> <<lbPR, LineDontBreak, 240>>
      [] state = lbDottedCircle /\ prop = prPO -> <<lbPO, LineDontBreak, 240>>
      [] state = lbDottedCircle /\ prop = prAL -> <<lbAL, LineDontBreak, 280>>
      [] state = lbDottedCircle /\ prop = prHL -> <<lbHL, LineDontBreak, 280>>
      [] state = lbDottedCircle /\ prop = prHH -> <<lbHH, LineDontBreak, 2102>>
      [] state = lbAKVI /\ prop = prAK -> <<lbAK, LineDontBreak, 2813>>
      [] state = lbAKVI /\ prop = prAny -> <<lbAny, LineCanBreak, 310>>
      [] state = lbBK /\ prop = prAny -> <<lbAny, LineMustBreak, 40>>
      [] state = lbCR /\ prop = prLF -> <<lbLF, LineDontBreak, 50>>
      [] state = lbCR /\ prop = prAny -> <<lbAny, LineMustBreak, 50>>
      [] state = lbLF /\ prop = prAny -> <<lbAny, LineMustBreak, 50>>
      [] state = lbNL /\ prop = prAny -> <<lbAny, LineMustBreak, 50>>
      [] state = lbAny /\ prop = prBK -> <<lbBK, LineDontBreak, 60>>
      [] state = lbAny /\ prop = prCR -> <<lbCR, LineDontBreak, 60>>
      [] state = lbAny /\ prop = prLF -> <<lbLF, LineDontBreak, 60>>
      [] state = lbAny /\ prop = prNL -> <<lbNL, LineDontBreak, 60>>
      [] state = lbAny /\ prop = prSP -> <<lbSP, LineDontBreak, 70>>
      [] state = lbAny /\ prop = prZW -> <<lbZW, LineDontBreak, 70>>
      [] state = lbZW /\ prop = prSP -> <<lbZW, LineDontBreak, 70>>
      [] state = lbZW /\ prop = prAny -> <<lbAny, LineCanBreak, 80>>
      [] state = lbAny /\ prop = prWJ -> <<lbWJ, LineDontBreak, 110>>
      [] state = lbWJ /\ prop = prAny -> <<lbAny, LineDontBreak, 110>>
      [] state = lbAny /\ prop = prGL -> <<lbGL, LineCanBreak, 310>>
      [] state = lbGL /\ prop = prAny -> <<lbAny, LineDontBreak, 120>>
      [] state = lbAny /\ prop = prCL -> <<lbCL, LineCanBreak, 310>>
      [] state = lbAny /\ prop = prCP -> <<lbCP, LineCanBreak, 310>>
      [] state = lbCP /\ prop = prHY -> <<lbCPHY, LineDontBreak, 210>>
      [] state = lbCL /\ prop = prHY -> <<lbCPHY, LineDontBreak, 210>>
      [] state = lbNUCP /\ prop = prHY -> <<lbCPHY, LineDontBreak, 210>>
      [] state = lbNUCL /\ prop = prHY -> <<lbCPHY, LineDontBreak, 210>>
      [] state = lbAny /\ prop = prEX -> <<lbEX, LineDontBreak, 130>>
      [] state = lbAny /\ prop = prIS -> <<lbIS, LineCanBreak, 310>>
      [] state = lbAny /\ prop = prSY -> <<lbSY, LineCanBreak, 310>>
      [] state = lbAny /\ prop = prOP -> <<lbOP, LineCanBreak, 310>>
      [] state = lbOP /\ prop = prSP -> <<lbOP, LineDontBreak, 70>>
      [] state = lbOP /\ prop = prAny -> <<lbAny, LineDontBreak, 140>>
      [] state = lbQU /\ prop = prSP -> <<lbQUSP, LineDontBreak, 70>>
      [] state = lbQUPi /\ prop = prSP -> <<lbQUPiSP, LineDontBreak, 70>>
      [] state = lbQU /\ prop = prOP -> <<lbOP, LineDontBreak, 150>>
      [] state = lbQUPi /\ prop = prOP -> <<lbOP, LineDontBreak, 150>>
      [] state = lbCL /\ prop = prSP -> <<lbCLCPSP, LineDontBreak, 70>>
      [] state = lbNUCL /\ prop = prSP -> <<lbCLCPSP, LineDontBreak, 70>>
      [] state = lbCP /\ prop = prSP -> <<lbCLCPSP, LineDontBreak, 70>>
      [] state = lbNUCP /\ prop = prSP -> <<lbCLCPSP, LineDontBreak, 70>>
      [] state = lbCL /\ prop = prNS -> <<lbNS, LineDontBreak, 160>>
      [] state = lbNUCL /\ prop = prNS -> <<lbNS, LineDontBreak, 160>>
      [] state = lbCP /\ prop = prNS -> <<lbNS, LineDontBreak, 160>>
      [] state = lbNUCP /\ prop = prNS -> <<lbNS, LineDontBreak, 160>>
      [] state = lbCLCPSP /\ prop = prNS -> <<lbNS, LineDontBreak, 160>>
      [] state = lbAny /\ prop = prB2 -> <<lbB2, LineCanBreak, 310>>
      [] state = lbB2 /\ prop = prSP -> <<lbB2SP, LineDontBreak, 70>>
      [] state = lbB2 /\ prop = prB2 -> <<lbB2, LineDontBreak, 170>>
      [] state = lbB2SP /\ prop = prB2 -> <<lbB2, LineDontBreak, 170>>
      [] state = lbSP /\ prop = prAny -> <<lbAny, LineCanBreak, 180>>
      [] state = lbQUSP /\ prop = prAny -> <<lbAny, LineCanBreak, 180>>
      [] state = lbCLCPSP /\ prop = prAny -> <<lbAny, LineCanBreak, 180>>
      [] state = lbB2SP /\ prop = prAny -> <<lbAny, LineCanBreak, 180>>
      [] state = lbQUPiSP /\ prop = prAny -> <<lbAny, LineCanBreak, 180>>
      [] state = lbQUPiSP /\ prop = prOP -> <<lbOP, LineCanBreak, 180>>
      [] state = lbAny /\ prop = prQU -> <<lbQU, LineDontBreak, 190>>
      [] state = lbQU /\ prop = prAny -> <<lbAny, LineDontBreak, 190>>
      [] state = lbQUPi /\ prop = prAny -> <<lbAny, LineDontBreak, 190>>
      [] state = lbAny /\ prop = prCB -> <<lbCB, LineCanBreak, 200>>
      [] state = lbCB /\ prop = prAny -> <<lbAny, LineCanBreak, 200>>
      [] state = lbAny /\ prop = prBA -> <<lbBA, LineDontBreak, 210>>
      [] state = lbAny /\ prop = prHY -> <<lbHY, LineDontBreak, 210>>
      [] state = lbAny /\ prop = prNS -> <<lbNS, LineDontBreak, 210>>
      [] state = lbAny /\ prop = prBB -> <<lbBB, LineCanBreak, 310>>
      [] state = lbBB /\ prop = prAny -> <<lbAny, LineDontBreak, 210>>
      [] state = lbAny /\ prop = prHL -> <<lbHL, LineCanBreak, 310>>
      [] state = lbHL /\ prop = prHY -> <<lbLB21a, LineDontBreak, 210>>
      [] state = lbHL /\ prop = prBA -> <<lbLB21a, LineDontBreak, 210>>
      [] state = lbLB21a /\ prop = prHL -> <<lbHL, LineCanBreak, 9990>>
      [] state = lbLB21a /\ prop = prAL -> <<lbAL, LineCanBreak, 9990>>
      [] state = lbLB21a /\ prop = prAny -> <<lbAny, LineDontBreak, 211>>
      [] state = lbSY /\ prop = prHL -> <<lbHL, LineDontBreak, 212>>
      [] state = lbNUSY /\ prop = prHL -> <<lbHL, LineDontBreak, 212>>
      [] state = lbAny /\ prop = prIN -> <<lbAny, LineDontBreak, 220>>
      [] state = lbAny /\ prop = prAL -> <<lbAL, LineCanBreak, 310>>
      [] state = lbAny /\ prop = prNU -> <<lbNU, LineCanBreak, 310>>
      [] state = lbAL /\ prop = prNU -> <<lbNU, LineDontBreak, 230>>
      [] state = lbHL /\ prop = prNU -> <<lbNU, LineDontBreak, 230>>
      [] state = lbNU /\ prop = prAL -> <<lbAL, LineDontBreak, 230>>
      [] state = lbNU /\ prop = prHL -> <<lbHL, LineDontBreak, 230>>
      [] state = lbNUNU /\ prop = prAL -> <<lbAL, LineDontBreak, 230>>
      [] state = lbNUNU /\ prop = prHL -> <<lbHL, LineDontBreak, 230>>
      [] state = lbAny /\ prop = prPR -> <<lbPR, LineCanBreak, 310>>
      [] state = lbAny /\ prop = prID -> <<lbIDEM, LineCanBreak, 310>>
      [] state = lbAny /\ prop = prEB -> <<lbEB, LineCanBreak, 310>>
      [] state = lbAny /\ prop = prEM -> <<lbIDEM, LineCanBreak, 310>>
      [] state = lbPR /\ prop = prID -> <<lbIDEM, LineDontBreak, 231>>
      [] state = lbPR /\ prop = prEB -> <<lbEB, LineDontBreak, 231>>
      [] state = lbPR /\ prop = prEM -> <<lbIDEM, LineDontBreak, 231>>
      [] state = lbIDEM /\ prop = prPO -> <<lbPO, LineDontBreak, 231>>
      [] state = lbEB /\ prop = prPO -> <<lbPO, LineDontBreak, 231>>
      [] state = lbExtPicCn /\ prop = prPO -> <<lbPO, LineDontBreak, 2313>>
      [] state = lbAny /\ prop = prPO -> <<lbPO, LineCanBreak, 310>>
      [] state = lbPR /\ prop = prAL -> <<lbAL, LineDontBreak, 240>>
      [] state = lbPR /\ prop = prHL -> <<lbHL, LineDontBreak, 240>>
      [] state = lbPO /\ prop = prAL -> <<lbAL, LineDontBreak, 240>>
      [] state = lbPO /\ prop = prHL -> <<lbHL, LineDontBreak, 240>>
      [] state = lbAL /\ prop = prPR -> <<lbPR, LineDontBreak, 240>>
      [] state = lbAL /\ prop = prPO -> <<lbPO, LineDontBreak, 240>>
      [] state = lbHL /\ prop = prPR -> <<lbPR, LineDontBreak, 240>>
      [] state = lbHL /\ prop = prPO -> <<lbPO, LineDontBreak, 240>>
      [] state = lbIS /\ prop = prNU -> <<lbNU, LineDontBreak, 2514>>
      [] state = lbPR /\ prop = prNU -> <<lbNU, LineDontBreak, 250>>
      [] state = lbPO /\ prop = prNU -> <<lbNU, LineDontBreak, 250>>
      [] state = lbOP /\ prop = prNU -> <<lbNU, LineDontBreak, 250>>
      [] state = lbHY /\ prop = prNU -> <<lbNU, LineDontBreak, 250>>
      [] state = lbNU /\ prop = prNU -> <<lbNUNU, LineDontBreak, 250>>
      [] state = lbNU /\ prop = prSY -> <<lbNUSY, LineDontBreak, 250>>
      [] state = lbNU /\ prop = prIS -> <<lbNUIS, LineDontBreak, 250>>
      [] state = lbNUNU /\ prop = prNU -> <<lbNUNU, LineDontBreak, 250>>
      [] state = lbNUNU /\ prop = prSY -> <<lbNUSY, LineDontBreak, 250>>
      [] state = lbNUNU /\ prop = prIS -> <<lbNUIS, LineDontBreak, 250>>
      [] state = lbNUSY /\ prop = prNU -> <<lbNUNU, LineDontBreak, 250>>
      [] state = lbNUSY /\ prop = prSY -> <<lbNUSY, LineDontBreak, 250>>
      [] state = lbNUSY /\ prop = prIS -> <<lbNUIS, LineDontBreak, 250>>
      [] state = lbNUIS /\ prop = prNU -> <<lbNUNU, LineDontBreak, 250>>
      [] state = lbNUIS /\ prop = prSY -> <<lbNUSY, LineDontBreak, 250>>
      [] state = lbNUIS /\ prop = prIS -> <<lbNUIS, LineDontBreak, 250>>
      [] state = lbNU /\ prop = prCL -> <<lbNUCL, LineDontBreak, 250>>
      [] state = lbNU /\ prop = prCP -> <<lbNUCP, LineDontBreak, 250>>
      [] state = lbNUNU /\ prop = prCL -> <<lbNUCL, LineDontBreak, 250>>
      [] state = lbNUNU /\ prop = prCP -> <<lbNUCP, LineDontBreak, 250>>
      [] state = lbNUSY /\ prop = prCL -> <<lbNUCL, LineDontBreak, 250>>
      [] state = lbNUSY /\ prop = prCP -> <<lbNUCP, LineDontBreak, 250>>
      [] state = lbNUIS /\ prop = prCL -> <<lbNUCL, LineDontBreak, 250>>
      [] state = lbNUIS /\ prop = prCP -> <<lbNUCP, LineDontBreak, 250>>
      [] state = lbNU /\ prop = prPO -> <<lbPO, LineDontBreak, 250>>
      [] state = lbNUNU /\ prop = prPO -> <<lbPO, LineDontBreak, 250>>
      [] state = lbNUSY /\ prop = prPO -> <<lbPO, LineDontBreak, 250>>
      [] state = lbNUIS /\ prop = prPO -> <<lbPO, LineDontBreak, 250>>
      [] state = lbNUCL /\ prop = prPO -> <<lbPO, LineDontBreak, 250>>
      [] state = lbNUCP /\ prop = prPO -> <<lbPO, LineDontBreak, 250>>
      [] state = lbNU /\ prop = prPR -> <<lbPR, LineDontBreak, 250>>
      [] state = lbNUNU /\ prop = prPR -> <<lbPR, LineDontBreak, 250>>
      [] state = lbNUSY /\ prop = prPR -> <<lbPR, LineDontBreak, 250>>
      [] state = lbNUIS /\ prop = prPR -> <<lbPR, LineDontBreak, 250>>
      [] state = lbNUCL /\ prop = prPR -> <<lbPR, LineDontBreak, 250>>
      [] state = lbNUCP /\ prop = prPR -> <<lbPR, LineDontBreak, 250>>
      [] state = lbAny /\ prop = prJL -> <<lbJL, LineCanBreak, 310>>
      [] state = lbAny /\ prop = prJV -> <<lbJV, LineCanBreak, 310>>
      [] state = lbAny /\ prop = prJT -> <<lbJT, LineCanBreak, 310>>
      [] state = lbAny /\ prop = prH2 -> <<lbH2, LineCanBreak, 310>>
      [] state = lbAny /\ prop = prH3 -> <<lbH3, LineCanBreak, 310>>
      [] state = lbJL /\ prop = prJL -> <<lbJL, LineDontBreak, 260>>
      [] state = lbJL /\ prop = prJV -> <<lbJV, LineDontBreak, 260>>
      [] state = lbJL /\ prop = prH2 -> <<lbH2, LineDontBreak, 260>>
      [] state = lbJL /\ prop = prH3 -> <<lbH3, LineDontBreak, 260>>
      [] state = lbJV /\ prop = prJV -> <<lbJV, LineDontBreak, 260>>
      [] state = lbJV /\ prop = prJT -> <<lbJT, LineDontBreak, 260>>
      [] state = lbH2 /\ prop = prJV -> <<lbJV, LineDontBreak, 260>>
      [] state = lbH2 /\ prop = prJT -> <<lbJT, LineDontBreak, 260>>
      [] state = lbJT /\ prop = prJT -> <<lbJT, LineDontBreak, 260>>
      [] state = lbH3 /\ prop = prJT -> <<lbJT, LineDontBreak, 260>>
      [] state = lbJL /\ prop = prPO -> <<lbPO, LineDontBreak, 270>>
      [] state = lbJV /\ prop = prPO -> <<lbPO, LineDontBreak, 270>>
      [] state = lbJT /\ prop = prPO -> <<lbPO, LineDontBreak, 270>>
      [] state = lbH2 /\ prop = prPO -> <<lbPO, LineDontBreak, 270>>
      [] state = lbH3 /\ prop = prPO -> <<lbPO, LineDontBreak, 270>>
      [] state = lbPR /\ prop = prJL -> <<lbJL, LineDontBreak, 270>>
      [] state = lbPR /\ prop = prJV -> <<lbJV, LineDontBreak, 270>>
      [] state = lbPR /\ prop = prJT -> <<lbJT, LineDontBreak, 270>>
      [] state = lbPR /\ prop = prH2 -> <<lbH2, LineDontBreak, 270>>
      [] state = lbPR /\ prop = prH3 -> <<lbH3, LineDontBreak, 270>>
      [] state = lbAL /\ prop = prAL -> <<lbAL, LineDontBreak, 280>>
      [] state = lbAL /\ prop = prHL -> <<lbHL, LineDontBreak, 280>>
      [] state = lbHL /\ prop = prAL -> <<lbAL, LineDontBreak, 280>>
      [] state = lbHL /\ prop = prHL -> <<lbHL, LineDontBreak, 280>>
      [] state = lbIS /\ prop = prAL -> <<lbAL, LineDontBreak, 290>>
      [] state = lbIS /\ prop = prHL -> <<lbHL, LineDontBreak, 290>>
      [] state = lbNUIS /\ prop = prAL -> <<lbAL, LineDontBreak, 290>>
      [] state = lbNUIS /\ prop = prHL -> <<lbHL, LineDontBreak, 290>>
      [] OTHER -> <<-1, -1, -1>>

\* The bits carried in the state are taken out of it: [state, isCPeaFWH,
\* forceNoBreak, isSot].  A negative state is the start of the text.
lbPrepare(state0) ==
    IF state0 < 0
    THEN [state |-> state0, isCPeaFWH |-> FALSE, forceNoBreak |-> FALSE, isSot |-> TRUE]
    ELSE [state |-> BitClear(BitClear(BitClear(state0, lbCPeaFWHBit), lbZWJBit), lbSotBit),
          isCPeaFWH |-> BitAnd(state0, lbCPeaFWHBit) # 0,
          forceNoBreak |-> BitAnd(state0, lbZWJBit) # 0,
          isSot |-> BitAnd(state0, lbSotBit) # 0]

\* The deferred function: transition into LB30, and the LB8a override.
lbDefer(res, r, forceNoBreak) ==
    <<IF res[1] \in {lbCP, lbNUCP} /\ propertyEastAsianWidth(r) \notin {prF, prW, prH}
      THEN BitOr(res[1], lbCPeaFWHBit)
      ELSE res[1],
      IF forceNoBreak THEN LineDontBreak ELSE res[2]>>

\* LB9 and LB10 of the legacy parser.
lbCombiningMark(state, bit) ==
    IF state < 0 \/ state \in {lbBK, lbCR, lbLF, lbNL}
    THEN <<BitOr(lbAL, bit), LineMustBreak>>
    ELSE IF state \notin {lbSP, lbZW, lbQUSP, lbCLCPSP, lbB2SP}
    THEN <<BitOr(state, bit), LineDontBreak>>
    ELSE <<BitOr(lbAL, bit), LineCanBreak>>

\* The applicable transition of the table: the exact one, or a mix of the
\* less specific ones, or LB31.
lbLookupMix(anyProp, anyState) ==
    IF anyProp[1] >= 0 /\ anyState[1] >= 0
    THEN IF anyProp[3] < anyState[3]
         THEN <<anyState[1], anyProp[2], anyProp[3]>>
         ELSE anyState
    ELSE IF anyProp[1] >= 0 THEN anyProp
    ELSE IF anyState[1] >= 0 THEN anyState
    ELSE <<lbAny, LineCanBreak, 310>>

lbLookupFrom(exact, state, nextProperty) ==
    IF exact[1] >= 0 THEN exact
    ELSE lbLookupMix(lbTransitions(state, prAny), lbTransitions(lbAny, nextProperty))

lbLookup(state, nextProperty) ==
    lbLookupFrom(lbTransitions(state, nextProperty), state, nextProperty)

\* The special states tracked after the table lookup: dotted circle, QU_Pi,
\* and the start-of-text bit carried through QU_Pi, HY, HH and QU_Pi SP.
lbTrackSot(newState, state, isSot) ==
    IF isSot /\ (newState \in {lbHY, lbHH} \/ (state = lbQUPi /\ newState = lbQUPiSP))
    THEN BitOr(newState, lbSotBit)
    ELSE newState

lbTrackQuote(newState, state, nextProperty, generalCategory, isSot) ==
    IF nextProperty = prQU /\ generalCategory = gcPi /\ newState = lbQU
    THEN lbTrackSot(IF isSot THEN BitOr(lbQUPi, lbSotBit) ELSE lbQUPi, state, isSot)
    ELSE lbTrackSot(newState, state, isSot)

lbTrack(newState, state, nextProperty, generalCategory, r, isSot) ==
    lbTrackQuote(IF nextProperty = prAL /\ r = DottedCircle /\ newState = lbAL
                 THEN lbDottedCircle ELSE newState,
                 state, nextProperty, generalCategory, isSot)

\* The class of the code point that follows (LB25 look ahead): b if it is
\* not nil, else str; -1 when it decodes to RuneError.
lbLookAhead(b, str) ==
    LET d == DecodeRune(IF Len(b) > 0 THEN b ELSE str)
    IN  IF d[1] = RuneError THEN -1 ELSE propertyLineBreak(d[1])[1]

\* LB30a and LB30b, then the plain result of the table.
lbLate(state, nextProperty, generalCategory, r, newState, lineBreak, rule) ==
    IF newState = lbAny /\ nextProperty = prRI
    THEN IF state = lbOddRI THEN <<lbEvenRI, LineDontBreak>> ELSE <<lbOddRI, lineBreak>>
    ELSE IF rule > 302 /\ nextProperty = prEM /\ state \in {lbEB, lbExtPicCn}
    THEN <<prAny, LineDontBreak>>
    ELSE IF /\ rule > 302
            /\ propertyGraphemes(r) = prExtendedPictographic
            /\ generalCategory = gcCn
    THEN <<lbExtPicCn, LineCanBreak>>
    ELSE <<newState, lineBreak>>

\* LB25 (look ahead) and LB30 (part one).
lbMiddle(state, nextProperty, generalCategory, r, newState, lineBreak, rule, isCPeaFWH, look) ==
    IF /\ \/ rule > 250 /\ state \in {lbPR, lbPO} /\ nextProperty = prOP
          \/ nextProperty = prHY
       /\ look = prNU
    THEN <<lbNU, LineDontBreak>>
    ELSE IF /\ rule > 300
            /\ state \in {lbAL, lbHL, lbNU, lbNUNU, lbDottedCircle}
            /\ nextProperty = prOP
            /\ propertyEastAsianWidth(r) \notin {prF, prW, prH}
    THEN <<lbOP, LineDontBreak>>
    ELSE IF /\ rule > 300
            /\ ~(state \in {lbAL, lbHL, lbNU, lbNUNU, lbDottedCircle} /\ nextProperty = prOP)
            /\ isCPeaFWH
            /\ nextProperty \in {prAL, prHL, prNU}
    THEN <<CASE nextProperty = prAL -> lbAL
             [] nextProperty = prHL -> lbHL
             [] nextProperty = prNU -> lbNU,
           LineDontBreak>>
    ELSE lbLate(state, nextProperty, generalCategory, r, newState, lineBreak, rule)

\* LB12a, LB15.1, LB20a.1, LB15.2, LB13 and LB28.11, which return before
\* the special states are tracked.
lbEarly(state, nextProperty, generalCategory, r, t, isSot, isCPeaFWH, isEot, look) ==
    IF /\ t[3] > 121
       /\ nextProperty = prGL
       /\ state \notin {lbSP, lbBA, lbHY, lbLB21a, lbQUSP, lbCLCPSP, lbB2SP, lbHH}
    THEN <<lbGL, LineDontBreak>>
    ELSE IF isSot /\ state = lbQUPiSP /\ t[3] >= 180
    THEN <<t[1], LineDontBreak>>
    ELSE IF isSot /\ state \in {lbHY, lbHH} /\ nextProperty \in {prAL, prHL}
    THEN <<IF nextProperty = prAL THEN lbAL ELSE lbHL, LineDontBreak>>
    ELSE IF /\ t[3] >= 180
            /\ nextProperty = prQU
            /\ generalCategory = gcPf
            /\ state \in {lbSP, lbQUSP, lbCLCPSP, lbB2SP, lbQUPiSP}
            /\ isEot
    THEN <<lbQU, LineDontBreak>>
    ELSE IF /\ t[3] > 130
            /\ state \notin {lbNU, lbNUNU}
            /\ nextProperty \in {prCL, prCP, prIS, prSY}
    THEN <<CASE nextProperty = prCL -> lbCL
             [] nextProperty = prCP -> lbCP
             [] nextProperty = prIS -> lbIS
             [] nextProperty = prSY -> lbSY,
           LineDontBreak>>
    ELSE IF state = lbAP /\ nextProperty = prAK THEN <<lbAK, LineDontBreak>>
    ELSE IF state = lbAP /\ nextProperty = prAS THEN <<lbAS, LineDontBreak>>
    ELSE IF state = lbAP /\ nextProperty = prAL /\ r = DottedCircle
    THEN <<lbDottedCircle, LineDontBreak>>
    ELSE lbMiddle(state, nextProperty, generalCategory, r,
                  lbTrack(t[1], state, nextProperty, generalCategory, r, isSot),
                  t[2], t[3], isCPeaFWH, look)

\* The transition for the prepared state p and the resolved property.
lbResolved(p, nextProperty, generalCategory, r, b, str) ==
    IF nextProperty = prZWJ \/ nextProperty = prCM
    THEN lbDefer(lbCombiningMark(p.state,
                                 BitOr(IF nextProperty = prZWJ THEN lbZWJBit ELSE 0,
                                       IF p.isSot THEN lbSotBit ELSE 0)),
                 r, p.forceNoBreak)
    ELSE lbDefer(lbEarly(p.state, nextProperty, generalCategory, r,
                         lbLookup(p.state, nextProperty), p.isSot, p.isCPeaFWH,
                         Len(b) = 0 /\ str = <<>>, lbLookAhead(b, str)),
                 r, p.forceNoBreak)

lbClassified(p, pg, r, b, str) ==
    lbResolved(p, lb1Resolve(pg[1], pg[2]), pg[2], r, b, str)

\* <<newState, lineBreak>> of the legacy line break parser for the state
\* and the next code point r; b / str is the text after r.
transitionLineBreakState(state, r, b, str) ==
    lbClassified(lbPrepare(state), propertyLineBreak(r), r, b, str)
(***************************************************************************)
(* The word and sentence parsers and the width of a code point, as the     *)
(* design describes them (UAX #29 rules WB3 - WB12, WB999 and SB3 - SB11,  *)
(* SB998; width from the East Asian width class).  Both parsers read the   *)
(* rest of the text only to look ahead.                                    *)
(***************************************************************************)
wordBreakCodePoints ==
    << <<10, 10, prLF>>,
       <<11, 12, prNewline>>,
       <<13, 13, prCR>>,
       <<32, 32, prWSegSpace>>,
       <<46, 46, prMidNumLet>>,
       <<48, 57, prNumeric>>,
       <<65, 90, prALetter>>,
       <<97, 122, prALetter>>,
       <<133, 133, prNewline>>,
       <<768, 879, prExtend>>,
       <<2325, 2325, prALetter>>,
       <<2381, 2381, prExtend>>,
       <<4352, 4352, prALetter>>,
       <<4449, 4449, prALetter>>,
       <<8205, 8205, prZWJ>>,
       <<10084, 10084, prExtendedPictographic>>,
       <<vs15, vs16, prExtend>>,
       <<127462, 127462, prRegionalIndicator>>,
       <<128512, 128512, prExtendedPictographic>> >>

sentenceBreakCodePoints ==
    << <<10, 10, prLF>>,
       <<13, 13, prCR>>,
       <<32, 32, prSp>>,
       <<33, 33, prSTerm>>,
       <<45, 45, prSContinue>>,
       <<46, 46, prATerm>>,
       <<48, 57, prNumeric>>,
       <<65, 90, prUpper>>,
       <<97, 122, prLower>>,
       <<133, 133, prSep>>,
       <<768, 879, prExtend>>,
       <<2325, 2325, prOLetter>>,
       <<2381, 2381, prExtend>>,
       <<4352, 4352, prOLetter>>,
       <<4449, 4449, prOLetter>>,
       <<8205, 8205, prExtend>>,
       <<vs15, vs16, prExtend>> >>

wbAny == 0
wbCR == 1
wbLF == 2
wbNewline == 3
wbWSegSpace == 4
wbALetter == 5
wbWB7 == 6
wbNumeric == 7
wbWB12 == 8

sbAny == 0
sbCR == 1
sbParaSep == 2
sbATerm == 3
sbATermSp == 4
sbSTerm == 5
sbSTermSp == 6
sbLetter == 7
sbLetterATerm == 8

\* The word property of the next code point of rest that is not
\* Extend, Format or ZWJ; -1 when there is none.
RECURSIVE wbLookahead(_)
wbLookahead(rest) ==
    IF Len(rest) = 0 THEN -1
    ELSE LET d == DecodeRune(rest)
             p == property(wordBreakCodePoints, d[1])
         IN  IF p \in {prExtend, prFormat, prZWJ}
             THEN wbLookahead(SubSeqFrom(rest, d[2]))
             ELSE p

wbNextState(prop) ==
    CASE prop = prCR -> wbCR
      [] prop = prLF -> wbLF
      [] prop = prNewline -> wbNewline
      [] prop = prWSegSpace -> wbWSegSpace
      [] prop = prALetter -> wbALetter
      [] prop = prNumeric -> wbNumeric
      [] OTHER -> wbAny

\* <<newState, boundary>>
transitionWordBreakState(state, r, b, str) ==
    LET prop == property(wordBreakCodePoints, r)
        st == IF state < 0 THEN wbAny ELSE state
        next == wbLookahead(b \o str)
    IN  IF st = wbCR /\ prop = prLF THEN <<wbLF, FALSE>>
        ELSE IF st \in {wbCR, wbLF, wbNewline} THEN <<wbNextState(prop), TRUE>>
        ELSE IF prop \in {prCR, prLF, prNewline} THEN <<wbNextState(prop), TRUE>>
        ELSE IF prop \in {prExtend, prFormat, prZWJ} THEN <<st, FALSE>>
        ELSE IF st = wbWSegSpace /\ prop = prWSegSpace THEN <<wbWSegSpace, FALSE>>
        ELSE IF st \in {wbALetter, wbNumeric} /\ prop \in {prALetter, prNumeric}
        THEN <<wbNextState(prop), FALSE>>
        ELSE IF /\ st = wbALetter
                /\ prop \in {prMidLetter, prMidNumLet, prSingleQuote}
                /\ next = prALetter
        THEN <<wbWB7, FALSE>>
        ELSE IF st = wbWB7 /\ prop = prALetter THEN <<wbALetter, FALSE>>
        ELSE IF /\ st = wbNumeric
                /\ prop \in {prMidNum, prMidNumLet, prSingleQuote}
                /\ next = prNumeric
        THEN <<wbWB12, FALSE>>
        ELSE IF st = wbWB12 /\ prop = prNumeric THEN <<wbNumeric, FALSE>>
        ELSE <<wbNextState(prop), TRUE>>

\* SB8: does a lowercase letter follow, past code points that are neither
\* letters nor separators nor terminators?
RECURSIVE sbLowerFollows(_)
sbLowerFollows(text) ==
    IF Len(text) = 0 THEN FALSE
    ELSE LET d == DecodeRune(text)
             p == property(sentenceBreakCodePoints, d[1])
         IN  IF p = prLower THEN TRUE
             ELSE IF p \in {prOLetter, prUpper, prSep, prCR, prLF, prSTerm, prATerm}
             THEN FALSE
             ELSE sbLowerFollows(SubSeqFrom(text, d[2]))

sbNextState(st, prop) ==
    CASE prop = prCR -> sbCR
      [] prop \in {prLF, prSep} -> sbParaSep
      [] prop = prATerm -> IF st = sbLetter THEN sbLetterATerm ELSE sbATerm
      [] prop = prSTerm -> sbSTerm
      [] prop = prSp -> IF st \in {sbATerm, sbLetterATerm, sbATermSp} THEN sbATermSp
                        ELSE IF st \in {sbSTerm, sbSTermSp} THEN sbSTermSp
                        ELSE sbAny
      [] prop = prClose -> IF st \in {sbATerm, sbLetterATerm, sbSTerm} THEN st ELSE sbAny
      [] prop \in {prUpper, prLower} -> sbLetter
      [] OTHER -> sbAny

\* <<newState, boundary>>
transitionSentenceBreakState(state, r, b, str) ==
    LET prop == property(sentenceBreakCodePoints, r)
        st == IF state < 0 THEN sbAny ELSE state
        aterm == {sbATerm, sbLetterATerm, sbATermSp}
        saterm == aterm \cup {sbSTerm, sbSTermSp}
        thisAndRest == IF prop = prLower THEN TRUE
                       ELSE IF prop \in {prOLetter, prUpper, prSep, prCR, prLF,
                                         prSTerm, prATerm}
                       THEN FALSE
                       ELSE sbLowerFollows(b \o str)
    IN  IF st = sbCR /\ prop = prLF THEN <<sbParaSep, FALSE>>
        ELSE IF st \in {sbCR, sbParaSep} THEN <<sbNextState(st, prop), TRUE>>
        ELSE IF prop \in {prExtend, prFormat} THEN <<st, FALSE>>
        ELSE IF st \in {sbATerm, sbLetterATerm} /\ prop = prNumeric
        THEN <<sbNextState(st, prop), FALSE>>
        ELSE IF st = sbLetterATerm /\ prop = prUpper
        THEN <<sbNextState(st, prop), FALSE>>
        ELSE IF st \in aterm /\ thisAndRest THEN <<sbNextState(st, prop), FALSE>>
        ELSE IF st \in saterm /\ prop \in {prSContinue, prATerm, prSTerm}
        THEN <<sbNextState(st, prop), FALSE>>
        ELSE IF /\ st \in {sbATerm, sbLetterATerm, sbSTerm}
                /\ prop \in {prClose, prSp, prSep, prCR, prLF}
        THEN <<sbNextState(st, prop), FALSE>>
        ELSE IF st \in {sbATermSp, sbSTermSp} /\ prop \in {prSp, prSep, prCR, prLF}
        THEN <<sbNextState(st, prop), FALSE>>
        ELSE IF st \in saterm THEN <<sbNextState(st, prop), TRUE>>
        ELSE <<sbNextState(st, prop), FALSE>>

\* The process-wide width of East Asian ambiguous code points (default 1).
eastAsianAmbiguousWidth == 1

runeWidth(r, graphemeProperty) ==
    IF graphemeProperty \in {prControl, prCR, prLF, prExtend, prZWJ} THEN 0
    ELSE IF graphemeProperty = prRegionalIndicator THEN 2
    ELSE IF propertyEastAsianWidth(r) \in {prW, prF} THEN 2
    ELSE IF propertyEastAsianWidth(r) = prA THEN eastAsianAmbiguousWidth
    ELSE 1

(***************************************************************************)
(* Step fusion.  A state token is the record of the bit fields of Go's     *)
(* int; neg tells a negative token, whose fields are its two's complement  *)
(* bits (-1 is the initial token).                                         *)
(***************************************************************************)
Token(neg, gr, wb, sb, lb, pr) ==
    [neg |-> neg, gr |-> gr, wb |-> wb, sb |-> sb, lb |-> lb, pr |-> pr]

\* The token -1.
InitialToken == Token(TRUE, maskGraphemeState, maskWordState, maskSentenceState,
                      maskLineState, -1)

\* A variant of PackState that does not keep the grapheme state.
PackStateNoGrapheme(g, w, s, l, p) == Token(FALSE, grAny, w, s, l, p)

\* g | (w << shiftWordState) | (s << shiftSentenceState) | (l << shiftLineState)
\*   | (p << shiftPropState), for non-negative operands: a field wider than its
\* bits runs over into the next ones.
PackState(g, w, s, l, p) ==
    LET v12 == BitOr(Shr(g, shiftWordState), w)
        v17 == BitOr(Shr(v12, shiftSentenceState - shiftWordState), s)
        v21 == BitOr(Shr(v17, shiftLineState - shiftSentenceState), l)
        v37 == BitOr(Shr(v21, shiftPropState - shiftLineState), p)
    IN  Token(FALSE, g % (maskGraphemeState + 1), v12 % (maskWordState + 1),
              v17 % (maskSentenceState + 1), v21 % (maskLineState + 1), v37)

\* The token returned at the end of the input: every parser at its Any state.
EndToken(prop) == PackState(grAny, wbAny, sbAny, lbAny, prop)

EndBoundariesNoSentence(width) ==
    BitOr(BitOr(LineMustBreak, Shl(1, shiftWord)), Shl(width, ShiftWidth))

\* The boundaries value of the end of the input (LB3, WB2, SB2).
EndBoundaries(width) ==
    BitOr(BitOr(BitOr(LineMustBreak, Shl(1, shiftWord)), Shl(1, shiftSentence)),
          Shl(width, ShiftWidth))

\* ClusterBoundaries with the width shifted one bit short, onto the
\* sentence flag.
ClusterBoundariesOverlap(lineBreak, width, wordBoundary, sentenceBoundary) ==
    LET b0 == BitOr(lineBreak, Shl(width, ShiftWidth - 1))
        b1 == IF wordBoundary THEN BitOr(b0, Shl(1, shiftWord)) ELSE b0
    IN  IF sentenceBoundary THEN BitOr(b1, Shl(1, shiftSentence)) ELSE b1

\* The boundaries value at a grapheme cluster boundary.
ClusterBoundaries(lineBreak, width, wordBoundary, sentenceBoundary) ==
    LET b0 == BitOr(lineBreak, Shl(width, ShiftWidth))
        b1 == IF wordBoundary THEN BitOr(b0, Shl(1, shiftWord)) ELSE b0
    IN  IF sentenceBoundary THEN BitOr(b1, Shl(1, shiftSentence)) ELSE b1

\* Variants of the definitions below, each wrong in one point.
StepResultShortRest(cluster, rest, boundaries, newState, path) ==
    [cluster |-> cluster, rest |-> IF rest = <<>> THEN rest ELSE Tail(rest),
     boundaries |-> boundaries, newState |-> newState, path |-> path]

StepResultNoCluster(cluster, rest, boundaries, newState, path) ==
    [cluster |-> IF path = "boundary" /\ Len(rest) = 1 THEN <<>> ELSE cluster,
     rest |-> rest, boundaries |-> boundaries, newState |-> newState,
     path |-> path]

StepResultSentinel(cluster, rest, boundaries, newState, path) ==
    [cluster |-> cluster, rest |-> rest, boundaries |-> boundaries,
     newState |-> IF path = "empty" THEN InitialToken ELSE newState,
     path |-> path]

StepResult(cluster, rest, boundaries, newState, path) ==
    [cluster |-> cluster, rest |-> rest, boundaries |-> boundaries,
     newState |-> newState, path |-> path]

\* The lookahead handed to the parsers: the byte-slice variant passes
\* (remainder, ""), the string variant (nil, remainder).
LookBytes(remainder, isString) == IF isString THEN <<>> ELSE remainder

LookString(remainder, isString) == IF isString THEN remainder ELSE <<>>

\* nextWidth without the exemption of regional indicators and L jamo.
nextWidthAlwaysAdds(width, firstProp, r, prop) ==
    IF firstProp = prExtendedPictographic
    THEN IF r = vs15 THEN 1 ELSE IF r = vs16 THEN 2 ELSE width
    ELSE width + runeWidth(r, prop)

\* The width of the cluster after one more code point of it.
nextWidth(width, firstProp, r, prop) ==
    IF firstProp = prExtendedPictographic
    THEN IF r = vs15 THEN 1 ELSE IF r = vs16 THEN 2 ELSE width
    ELSE IF firstProp # prRegionalIndicator /\ firstProp # prL
    THEN width + runeWidth(r, prop)
    ELSE width

\* The loop of Step and StepString: transition until a grapheme cluster
\* boundary or the end of the input.
RECURSIVE StepLoop(_, _, _, _, _, _, _, _, _)

\* StepLoopEnd returning a token that holds the class of the first code
\* point of the cluster returned, not that of the first of the rest.
StepLoopEndStaleProp(b, length, r, l, g, w, s, n, firstProp, width, isString) ==
    IF g.boundary
    THEN StepResult(SubSeqTo(b, length), SubSeqFrom(b, length),
                    ClusterBoundaries(n[2], width, w[2], s[2]),
                    PackState(g.state, w[1], s[1], n[1], firstProp), "boundary")
    ELSE IF Len(b) <= length + l
    THEN StepResult(b, <<>>, EndBoundaries(nextWidth(width, firstProp, r, g.prop)),
                    EndToken(g.prop), "end")
    ELSE StepLoop(b, length + l, g.state, w[1], s[1], n[1], firstProp,
                  nextWidth(width, firstProp, r, g.prop), isString)

\* StepLoopEnd returning a token without the line state of this iteration:
\* the next call resumes the line analyzer from its Any state.
StepLoopEndNoLine(b, length, r, l, g, w, s, n, firstProp, width, isString) ==
    IF g.boundary
    THEN StepResult(SubSeqTo(b, length), SubSeqFrom(b, length),
                    ClusterBoundaries(n[2], width, w[2], s[2]),
                    PackState(g.state, w[1], s[1], lbAny, g.prop), "boundary")
    ELSE IF Len(b) <= length + l
    THEN StepResult(b, <<>>, EndBoundaries(nextWidth(width, firstProp, r, g.prop)),
                    EndToken(g.prop), "end")
    ELSE StepLoop(b, length + l, g.state, w[1], s[1], n[1], firstProp,
                  nextWidth(width, firstProp, r, g.prop), isString)

\* The end of one iteration: g, w, s and n are the results of the four
\* transitions on the rune r of l bytes.
StepLoopEnd(b, length, r, l, g, w, s, n, firstProp, width, isString) ==
    IF g.boundary
    THEN StepResult(SubSeqTo(b, length), SubSeqFrom(b, length),
                    ClusterBoundaries(n[2], width, w[2], s[2]),
                    PackState(g.state, w[1], s[1], n[1], g.prop), "boundary")
    ELSE IF Len(b) <= length + l
    THEN StepResult(b, <<>>, EndBoundaries(nextWidth(width, firstProp, r, g.prop)),
                    EndToken(g.prop), "end")
    ELSE StepLoop(b, length + l, g.state, w[1], s[1], n[1], firstProp,
                  nextWidth(width, firstProp, r, g.prop), isString)

\* The transitions of one iteration on the rune r of l bytes, lb and ls
\* being the lookahead.
StepLoopRune(b, length, r, l, lb, ls, graphemeState, wordState, sentenceState, lineState, firstProp, width, isString) ==
    StepLoopEnd(b, length, r, l,
                transitionGraphemeState(graphemeState, r),
                transitionWordBreakState(wordState, r, lb, ls),
                transitionSentenceBreakState(sentenceState, r, lb, ls),
                transitionLineBreakStateContext(lineState, r, lb, ls),
                firstProp, width, isString)

\* One iteration on the decoded rune d = <<rune, length>>.
StepLoopDecoded(b, length, d, graphemeState, wordState, sentenceState, lineState, firstProp, width, isString) ==
    StepLoopRune(b, length, d[1], d[2],
                 LookBytes(SubSeqFrom(b, length + d[2]), isString),
                 LookString(SubSeqFrom(b, length + d[2]), isString),
                 graphemeState, wordState, sentenceState, lineState, firstProp,
                 width, isString)

StepLoop(b, length, graphemeState, wordState, sentenceState, lineState, firstProp, width, isString) ==
    StepLoopDecoded(b, length, DecodeRune(SubSeqFrom(b, length)), graphemeState,
                    wordState, sentenceState, lineState, firstProp, width, isString)

\* The states of the parsers after the first rune when the token is
\* negative: g is the grapheme transition, lb and ls the lookahead.
StepFromUnknown(b, r, length, isString, g, lb, ls) ==
    StepLoop(b, length, g.state,
             transitionWordBreakState(-1, r, lb, ls)[1],
             transitionSentenceBreakState(-1, r, lb, ls)[1],
             transitionLineBreakStateContext(-1, r, lb, ls)[1],
             g.prop, runeWidth(r, g.prop), isString)

\* The part of Step and StepString after the first rune is known not to be
\* the last: determine the parser states, then loop.
StepFrom(b, state, r, length, isString) ==
    IF state.neg
    THEN StepFromUnknown(b, r, length, isString,
                         transitionGraphemeState(state.gr, r),
                         LookBytes(SubSeqFrom(b, length), isString),
                         LookString(SubSeqFrom(b, length), isString))
    ELSE StepLoop(b, length, state.gr, state.wb, state.sb, state.lb, state.pr,
                  runeWidth(r, state.pr), isString)

\* Step after the first rune r of the given length has been decoded.
StepFirst(b, state, r, length) ==
    IF Len(b) <= length
    THEN StepResult(b, <<>>,
                    EndBoundaries(runeWidth(r, IF state.neg THEN propertyGraphemes(r)
                                               ELSE state.pr)),
                    EndToken(IF state.neg THEN propertyGraphemes(r) ELSE state.pr),
                    "single")
    ELSE StepFrom(b, state, r, length, FALSE)

\* StepString after the first rune r of the given length has been decoded.
StepStringFirst(str, state, r, length) ==
    IF Len(str) <= length
    THEN \* the returned token holds no cached property here
         StepResult(str, <<>>, EndBoundaries(runeWidth(r, propertyGraphemes(r))),
                    EndToken(0), "single")
    ELSE StepFrom(str, state, r, length, TRUE)

\* The first rune and its length, taken from the decoded pair.
StepDecoded(b, state, d) == StepFirst(b, state, d[1], d[2])

StepStringDecoded(str, state, d) == StepStringFirst(str, state, d[1], d[2])

Step(b, state) ==
    IF Len(b) = 0
    THEN StepResult(<<>>, <<>>, 0, PackState(0, 0, 0, 0, 0), "empty")
    ELSE StepDecoded(b, state, DecodeRune(b))

StepString(str, state) ==
    IF Len(str) = 0
    THEN StepResult(<<>>, <<>>, 0, PackState(0, 0, 0, 0, 0), "empty")
    ELSE StepStringDecoded(str, state, DecodeRune(str))

(***************************************************************************)
(* FirstLineSegmentContext: the first line segment of b; state is -1 or a  *)
(* packed LineContext.                                                     *)
(***************************************************************************)
SegResult(segment, rest, breakType, newState) ==
    [segment |-> segment, rest |-> rest, breakType |-> breakType,
     newState |-> newState]

RECURSIVE FirstLineSegmentLoop(_, _, _)

\* FirstLineSegmentLoopEnd returning, at a break, the state after the rune
\* that follows the break: the next call feeds that rune a second time.
FirstLineSegmentLoopEndAhead(b, length, ctx, l, t) ==
    IF t.lb # LineDontBreak
    THEN SegResult(SubSeqTo(b, length), SubSeqFrom(b, length), t.lb,
                   packLineContext(t.ctx))
    ELSE IF Len(b) <= length + l
    THEN SegResult(b, <<>>, LineMustBreak, packLineContext(t.ctx))
    ELSE FirstLineSegmentLoop(b, length + l, t.ctx)

\* The end of one iteration: t is the transition on the rune of l bytes.
FirstLineSegmentLoopEnd(b, length, ctx, l, t) ==
    IF t.lb # LineDontBreak
    THEN SegResult(SubSeqTo(b, length), SubSeqFrom(b, length), t.lb,
                   packLineContext(ctx))
    ELSE IF Len(b) <= length + l
    THEN SegResult(b, <<>>, LineMustBreak, packLineContext(t.ctx))
    ELSE FirstLineSegmentLoop(b, length + l, t.ctx)

\* One iteration on the decoded rune d = <<rune, length>>.
FirstLineSegmentLoopDecoded(b, length, ctx, d) ==
    FirstLineSegmentLoopEnd(b, length, ctx, d[2],
        transitionLineBreakContext(ctx, d[1], SubSeqFrom(b, length + d[2]), <<>>))

FirstLineSegmentLoop(b, length, ctx) ==
    FirstLineSegmentLoopDecoded(b, length, ctx, DecodeRune(SubSeqFrom(b, length)))

\* FirstLineSegmentContext on the decoded first rune d = <<rune, length>>.
FirstLineSegmentDecoded(b, state, d) ==
    IF Len(b) <= d[2]
    THEN SegResult(b, <<>>, LineMustBreak, packLineContext(LineContext(lbcAny, 0)))
    ELSE FirstLineSegmentLoop(b, d[2],
             transitionLineBreakContext(unpackLineContext(state), d[1],
                                        SubSeqFrom(b, d[2]), <<>>).ctx)

FirstLineSegmentContext(b, state) ==
    IF Len(b) = 0 THEN SegResult(<<>>, <<>>, LineDontBreak, -1)
    ELSE FirstLineSegmentDecoded(b, state, DecodeRune(b))

(***************************************************************************)
(* Bounds and inputs.                                                      *)
(***************************************************************************)
\* The longest text, in bytes.
MaxLen == 4

\* The longest text that is stepped from another token than the initial one
\* or handed over in two parts.
MaxPartLen == 3

\* 'a', ' ', '.', LF, CR, and the two bytes of U+0301 (0xCC 0x81), each of
\* which alone is malformed UTF-8.
StepBytes == {97, 32, 46, 10, 13, 204, 129}

\* 'a', '-', ' ', LF, VT, CR, 0xCC, 0x81.
SegBytes == {97, 45, 32, 10, 11, 13, 204, 129}

TextsOver(bytes) == UNION {[1..n -> bytes] : n \in 0..MaxLen}

\* "a\r\nb"
TextCRLF == <<97, 13, 10, 98>>

\* "well-known"
TextWellKnown == <<119, 101, 108, 108, 45, 107, 110, 111, 119, 110>>

\* "Hello"
TextHello == <<72, 101, 108, 108, 111>>

StepExamples == {TextCRLF, TextHello}

SegExamples == {TextCRLF, TextWellKnown}

\* Tokens a caller may pass to the first call: the initial token, the zero
\* token, tokens as Step returns them inside a text, and a token with every
\* field at its largest value.
StartTokens ==
    { InitialToken,
      PackState(0, 0, 0, 0, 0),
      PackState(grCR, wbCR, sbCR, packLineContext(LineContext(lbcCR, 0)), prCR),
      PackState(grAny, wbALetter, sbLetter, packLineContext(LineContext(lbcAL, 0)),
                prExtend),
      Token(FALSE, maskGraphemeState, maskWordState, maskSentenceState,
            maskLineState, 99) }

\* The code points of a text, in order, as <<rune, length>> pairs.
RECURSIVE Runes(_)
Runes(text) ==
    IF Len(text) = 0 THEN <<>>
    ELSE LET d == DecodeRune(text)
         IN  <<d>> \o Runes(SubSeqFrom(text, d[2]))

NumRunes(text) == Len(Runes(text))

RECURSIVE Concat(_)
Concat(seqs) == IF Len(seqs) = 0 THEN <<>> ELSE Head(seqs) \o Concat(Tail(seqs))

(***************************************************************************)
(* State.                                                                  *)
(***************************************************************************)
VARIABLES
    input,     \* the whole text
    start,     \* the token (packed state) passed to the first call
    cut,       \* the text is handed over as input[1..cut], then the rest
    pending,   \* the part of the text not handed over yet
    b,         \* what is left of the part being stepped (the last rest)
    state,     \* the state token (Step) or packed line state (segments)
    clusters,  \* the clusters / segments returned so far
    verdicts,  \* the boundaries / break types returned with them
    path,      \* the return path of the last call
    calls,     \* the calls made on a non-empty input
    pos,       \* the code points scanned by the parsers run side by side
    gstate,    \* the grapheme parser's state in that scan
    lctx,      \* the line machine's context in that scan
    gbounds,   \* per scanned code point: a cluster boundary before it?
    lverds,    \* per scanned code point: the line verdict before it
    fed,       \* the verdict of the last transition of the line machine fed
               \* rune by rune (-1 before the first)
    search     \* a call of propertySearch: its arguments, the bounds of its
               \* loop, the iterations made, and its result once returned

vars == <<input, start, cut, pending, b, state, clusters, verdicts, path, calls,
          pos, gstate, lctx, gbounds, lverds, fed, search>>

scanVars == <<pos, gstate, lctx, gbounds, lverds>>

\* No call of propertySearch is followed.
SearchIdle ==
    [dictionary |-> <<>>, r |-> 0, from |-> 0, to |-> 0, iterations |-> 0,
     returned |-> FALSE, result |-> ZeroEntry]

ScanIdle ==
    /\ search = SearchIdle
    /\ fed = -1
    /\ pos = 0
    /\ gstate = -1
    /\ lctx = unpackLineContext(-1)
    /\ gbounds = <<>>
    /\ lverds = <<>>

(***************************************************************************)
(* Stepping a text with Step / StepString, the way the examples do:        *)
(*     for len(b) > 0 { c, b, boundaries, state = Step(b, state) }         *)
(* A text may be handed over in two parts, the second stepped from the     *)
(* token the last call on the first returned.                              *)
(***************************************************************************)
Init ==
    /\ input \in TextsOver(StepBytes) \cup StepExamples
    /\ cut \in 0..Len(input)
    /\ cut = 0 => input = <<>>
    /\ b = SubSeqTo(input, cut)
    /\ pending = SubSeqFrom(input, cut)
    /\ start \in StartTokens
    /\ Len(input) > MaxPartLen => (cut = Len(input) /\ start = InitialToken)
    /\ pending # <<>> => start = InitialToken
    /\ state = start
    /\ clusters = <<>>
    /\ verdicts = <<>>
    /\ path = "none"
    /\ calls = 0
    /\ ScanIdle

Record(res) ==
    /\ b' = res.rest
    /\ state' = res.newState
    /\ path' = res.path
    /\ IF res.path = "empty"
       THEN UNCHANGED <<clusters, verdicts, calls>>
       ELSE /\ clusters' = Append(clusters, res.cluster)
            /\ verdicts' = Append(verdicts, res.boundaries)
            /\ calls' = calls + 1
    /\ UNCHANGED <<input, start, cut, pending>>
    /\ UNCHANGED scanVars
    /\ UNCHANGED <<fed, search>>

StepCall ==
    /\ b = <<>> => pending = <<>>
    /\ Record(Step(b, state))

StepStringCall ==
    /\ b = <<>> => pending = <<>>
    /\ Record(StepString(b, state))

\* The caller goes on with the second part of the text.
Continue ==
    /\ b = <<>>
    /\ pending # <<>>
    /\ b' = pending
    /\ pending' = <<>>
    /\ path' = "continue"
    /\ UNCHANGED <<input, start, cut, state, clusters, verdicts, calls>>
    /\ UNCHANGED scanVars
    /\ UNCHANGED <<fed, search>>

Next == StepCall \/ StepStringCall \/ Continue

Spec == Init /\ [][Next]_vars

(***************************************************************************)
(* Line segments.  The grapheme parser and the line machine first scan the *)
(* text code point by code point; then the text is cut into segments:      *)
(*     for len(b) > 0 { seg, b, _, state = FirstLineSegmentContext(b, state) } *)
(***************************************************************************)
InitSeg ==
    /\ input \in TextsOver(SegBytes) \cup SegExamples
    /\ cut = Len(input)
    /\ b = input
    /\ pending = <<>>
    /\ start = -1
    /\ state = start
    /\ clusters = <<>>
    /\ verdicts = <<>>
    /\ path = "none"
    /\ calls = 0
    /\ ScanIdle

\* The byte offset of the first pos code points of the text.
RECURSIVE OffsetOf(_, _)
OffsetOf(text, n) ==
    IF n = 0 THEN 0
    ELSE LET d == DecodeRune(text)
         IN  d[2] + OffsetOf(SubSeqFrom(text, d[2]), n - 1)

\* The results of the two transitions are recorded.
ScanRecord(g, t) ==
    /\ gstate' = g.state
    /\ lctx' = t.ctx
    /\ gbounds' = Append(gbounds, g.boundary)
    /\ lverds' = Append(lverds, t.lb)
    /\ pos' = pos + 1
    /\ UNCHANGED <<input, start, cut, pending, b, state, clusters, verdicts, path,
                   calls, fed, search>>

\* The transitions on the rune d = <<rune, length>> found at the offset off.
ScanRune(d, off) ==
    ScanRecord(transitionGraphemeState(gstate, d[1]),
               transitionLineBreakContext(lctx, d[1],
                                          SubSeqFrom(input, off + d[2]), <<>>))

ScanAt(off) == ScanRune(DecodeRune(SubSeqFrom(input, off)), off)

Scan ==
    /\ pos < NumRunes(input)
    /\ ScanAt(OffsetOf(input, pos))

RecordSegment(res) ==
    /\ b' = res.rest
    /\ state' = res.newState
    /\ IF Len(b) = 0
       THEN /\ path' = "empty"
            /\ UNCHANGED <<clusters, verdicts, calls>>
       ELSE /\ path' = "segment"
            /\ clusters' = Append(clusters, res.segment)
            /\ verdicts' = Append(verdicts, res.breakType)
            /\ calls' = calls + 1
    /\ UNCHANGED <<input, start, cut, pending>>
    /\ UNCHANGED scanVars
    /\ UNCHANGED <<fed, search>>

SegmentCall ==
    /\ pos = NumRunes(input)
    /\ RecordSegment(FirstLineSegmentContext(b, state))

NextSeg == Scan \/ SegmentCall

SpecSeg == InitSeg /\ [][NextSeg]_vars

(***************************************************************************)
(* Properties of stepping.                                                 *)
(***************************************************************************)
\* The three parts of a boundaries value the caller reads with the masks.
LineOf(boundaries) == boundaries % (MaskLine + 1)

WordBit(boundaries) == (boundaries \div MaskWord) % 2 = 1

SentenceBit(boundaries) == (boundaries \div MaskSentence) % 2 = 1

\* The whole text has been handed over and stepped to the end.
Done == b = <<>> /\ pending = <<>> /\ calls > 0

\* The last call was one of Step or StepString on a non-empty input.
Stepped == path \in {"single", "boundary", "end"}

\* The text is stepped in one piece from the initial token.
FromInitial == start = InitialToken /\ cut = Len(input)

Malformed(text) == \E i \in 1..Len(Runes(text)) :
                       Runes(text)[i][1] = RuneError

\* C1 (exhaustiveness): the clusters returned so far, followed by the rest
\* the last call returned and by the part of the text not handed over yet,
\* are the text: every call returns cluster and rest with cluster ++ rest = b,
\* and when the rest is empty the clusters concatenate to the input.
C1_Exhaustive == Concat(clusters) \o b \o pending = input

C1_Witness ==
    /\ Done
    /\ FromInitial
    /\ Len(clusters) >= 2
    /\ \E i \in 1..Len(clusters) : NumRunes(clusters[i]) >= 2
    /\ Concat(clusters) = input

\* C2 (progress): every cluster holds at least one code point, so that the
\* calls made so far plus the code points still to step never exceed the
\* code points handed over: the loop ends after at most one call per code
\* point, for malformed texts and for every starting token too.
C2_Progress ==
    /\ \A i \in 1..Len(clusters) : NumRunes(clusters[i]) >= 1
    /\ calls = Len(clusters)
    /\ calls + NumRunes(b) + NumRunes(pending)
           <= NumRunes(SubSeqTo(input, cut)) + NumRunes(SubSeqFrom(input, cut))

C2_Witness ==
    /\ Done
    /\ start # InitialToken
    /\ Malformed(input)
    /\ calls = NumRunes(input)
    /\ calls >= 2

\* C3 (end of input): a call on a non-empty input that returns an empty rest
\* reports LineMustBreak with the word and sentence bits set, whatever token
\* it was given; a call that returns a non-empty rest returned at a grapheme
\* cluster boundary, with the parsers' verdicts.
C3_EndOfInput ==
    Stepped =>
        LET v == verdicts[Len(verdicts)]
        IN  /\ b = <<>> => /\ LineOf(v) = LineMustBreak
                           /\ WordBit(v)
                           /\ SentenceBit(v)
                           /\ path \in {"single", "end"}
            /\ b # <<>> => path = "boundary"

C3_Witness ==
    /\ path = "end"
    /\ b = <<>>
    /\ start # InitialToken
    /\ Len(clusters) >= 2
    /\ LineOf(verdicts[Len(verdicts)]) = LineMustBreak
    /\ LineOf(verdicts[1]) = LineDontBreak

\* The clusters returned so far, each with its boundaries value.
Pairs == [i \in 1..Len(clusters) |-> <<clusters[i], verdicts[i]>>]

\* Stepping a text to the end from a token with Step:
\*     for len(b) > 0 { c, b, boundaries, state = Step(b, state) }
RECURSIVE RunChain(_, _)
RunChain(text, token) ==
    IF text = <<>> THEN <<>>
    ELSE LET res == Step(text, token)
         IN  <<<<res.cluster, res.boundaries>>>> \o RunChain(res.rest, res.newState)

\* One uninterrupted pass of the four parsers over a text, their states
\* handed from code point to code point as they are (no token): a cluster
\* ends where the grapheme parser reports a boundary, with the verdicts the
\* other parsers report there, and at the end of the text.
RECURSIVE OnePass(_, _, _, _, _, _, _, _, _)
OnePass(text, from, length, g, w, s, ctx, firstProp, width) ==
    LET d == DecodeRune(SubSeqFrom(text, length))
        r == d[1]
        l == d[2]
        remainder == SubSeqFrom(text, length + l)
        gt == transitionGraphemeState(g, r)
        wt == transitionWordBreakState(w, r, remainder, <<>>)
        st == transitionSentenceBreakState(s, r, remainder, <<>>)
        lt == transitionLineBreakContext(ctx, r, remainder, <<>>)
        boundary == length > 0 /\ gt.boundary
        first == length = 0 \/ boundary
        emitted == IF boundary
                   THEN << <<SubSeq(text, from + 1, length),
                             ClusterBoundaries(lt.lb, width, wt[2], st[2])>> >>
                   ELSE <<>>
        newFrom == IF boundary THEN length ELSE from
        newFirst == IF first THEN gt.prop ELSE firstProp
        newWidth == IF first THEN runeWidth(r, gt.prop)
                    ELSE nextWidth(width, firstProp, r, gt.prop)
    IN  IF Len(text) <= length + l
        THEN emitted \o << <<SubSeq(text, newFrom + 1, Len(text)),
                             EndBoundaries(newWidth)>> >>
        ELSE emitted \o OnePass(text, newFrom, length + l, gt.state, wt[1], st[1],
                                lt.ctx, newFirst, newWidth)

RefRun(text) ==
    IF text = <<>> THEN <<>>
    ELSE OnePass(text, 0, 0, -1, -1, -1, unpackLineContext(-1), 0, 0)

\* The clusters with their line, word and sentence verdicts (no widths).
VerdictsOf(pairs) ==
    [i \in 1..Len(pairs) |-> <<pairs[i][1], pairs[i][2] % Pow2(ShiftWidth)>>]

\* C4 as stated (state opacity): stepping X ++ Y to the end from the initial
\* token yields the clusters and verdicts of stepping X to the end and then Y
\* from the token the last call on X returned.
C4_SplitEqualsWhole ==
    (Done /\ start = InitialToken) =>
        VerdictsOf(Pairs) = VerdictsOf(RunChain(input, InitialToken))

\* C4 (amended): the token carries the parsers from call to call inside one
\* text: stepping a text to the end, each call on the rest and the token of
\* the call before, yields the clusters and verdicts of one uninterrupted
\* pass of the four parsers over the text; the call that returns an empty
\* rest returns the token of the four Any states, which resumes nothing.
C4_TokenCarriesPass ==
    (Done /\ FromInitial) =>
        /\ Pairs = RefRun(input)
        /\ Stepped => /\ ~state.neg
                      /\ state.gr = grAny
                      /\ state.wb = wbAny
                      /\ state.sb = sbAny
                      /\ state.lb = lbAny

C4_Witness ==
    /\ Done
    /\ FromInitial
    /\ Len(clusters) >= 2
    /\ NumRunes(clusters[1]) >= 2
    /\ \E i \in 1..Len(verdicts) : LineOf(verdicts[i]) = LineCanBreak
    /\ Pairs = RefRun(input)

\* C5 (same contract): for the same text and the same token Step and
\* StepString return the same cluster, rest, boundaries and newState, on
\* every return path.
C5_SameContract == Step(b, state) = StepString(b, state)

\* C6 as stated (empty input): a call with an empty input returns the
\* initial token, the negative sentinel.
C6_EmptyReturnsSentinel == path = "empty" => state = InitialToken

\* C6 (amended): a call with an empty input returns an empty cluster, an
\* empty rest, the boundaries value 0 and the token 0, whatever token it was
\* given; the token 0 is not the negative sentinel.
C6_EmptyReturnsZero ==
    /\ \A res \in {Step(<<>>, state), StepString(<<>>, state)} :
           /\ res.cluster = <<>>
           /\ res.rest = <<>>
           /\ res.boundaries = 0
           /\ res.newState = PackState(0, 0, 0, 0, 0)
           /\ res.newState # InitialToken
    /\ path = "empty" => /\ b = <<>>
                         /\ state = PackState(0, 0, 0, 0, 0)
                         /\ Len(clusters) = calls
                         /\ Len(verdicts) = calls

C6_Witness ==
    /\ path = "empty"
    /\ calls = 0
    /\ start \notin {InitialToken, PackState(0, 0, 0, 0, 0)}
    /\ state = PackState(0, 0, 0, 0, 0)

LineVerdicts == [i \in 1..Len(verdicts) |-> LineOf(verdicts[i])]

\* C10 as stated: "a\r\nb" steps into a, \r\n, b with the line verdicts
\* CanBreak, MustBreak, MustBreak.
C10_CanMustMust ==
    (input = TextCRLF /\ Done /\ FromInitial) =>
        /\ clusters = <<<<97>>, <<13, 10>>, <<98>>>>
        /\ LineVerdicts = <<LineCanBreak, LineMustBreak, LineMustBreak>>

\* C10 (amended): "a\r\nb" steps into a, \r\n, b with the line verdicts
\* DontBreak (no break before CR, LB6), MustBreak, MustBreak.
C10_DontMustMust ==
    (input = TextCRLF /\ Done /\ FromInitial) =>
        /\ clusters = <<<<97>>, <<13, 10>>, <<98>>>>
        /\ LineVerdicts = <<LineDontBreak, LineMustBreak, LineMustBreak>>

C10_Witness ==
    /\ input = TextCRLF
    /\ Done
    /\ FromInitial
    /\ Len(clusters) = 3
    /\ LineVerdicts[1] = LineDontBreak

Range(seq) == {seq[i] : i \in 1..Len(seq)}

\* 'a', ' ', '.', LF: a letter (AL), a space (SP), a full stop (IS), a line
\* feed (LF).
PlainBytes == {97, 32, 46, 10}

\* The byte offset at which the first i clusters end.
EndOf(i) == Len(Concat(SubSeqTo(clusters, i)))

\* The line verdict C7 states for the end of cluster i of a plain text.
PlainVerdict(i) ==
    IF clusters[i] = <<10>> \/ EndOf(i) = Len(input) THEN LineMustBreak
    ELSE IF clusters[i] = <<32>> /\ input[EndOf(i) + 1] = 97 THEN LineCanBreak
    ELSE LineDontBreak

\* C7: in a text of letters, spaces, full stops and line feeds stepped from
\* the initial token, the line verdict after a cluster is CanBreak exactly
\* when the cluster is a space and a letter follows, MustBreak exactly when
\* the cluster is a line feed or the last one, and DontBreak otherwise.
C7_PlainText ==
    (FromInitial /\ Range(input) \subseteq PlainBytes) =>
        \A i \in 1..Len(clusters) : LineOf(verdicts[i]) = PlainVerdict(i)

C7_Witness ==
    /\ Done
    /\ FromInitial
    /\ Range(input) = PlainBytes
    /\ \E i \in 1..Len(verdicts) : LineOf(verdicts[i]) = LineCanBreak
    /\ \E i \in 1..Len(verdicts) : LineOf(verdicts[i]) = LineDontBreak
    /\ \E i \in 1..(Len(verdicts) - 1) : LineOf(verdicts[i]) = LineMustBreak

(***************************************************************************)
(* Properties of the line segments.                                        *)
(***************************************************************************)
\* The line breaking class (after LB1) of the i-th code point of the text.
ClassAt(i) ==
    LET pg == propertyLineBreak(Runes(input)[i][1])
    IN  lb1Resolve(pg[1], pg[2])

ScanDone == pos = NumRunes(input)

\* The byte offsets at which the segments returned so far end.
SegmentEnds == {EndOf(i) : i \in 1..Len(clusters)}

\* The code points i of the text such that i is a CR, i + 1 an LF, and the
\* code point before the CR, if any, is not a BK, CR, LF or NL.
CRLFAt ==
    {i \in 1..(NumRunes(input) - 1) :
        /\ ClassAt(i) = prCR
        /\ ClassAt(i + 1) = prLF
        /\ i > 1 => ClassAt(i - 1) \notin {prBK, prCR, prLF, prNL}}

\* C8: in a text X CR LF Y with X not ending in BK, CR, LF or NL, the
\* grapheme parser reports no boundary between CR and LF, the line machine
\* returns DontBreak before the CR and between CR and LF and MustBreak after
\* the LF, and the segments of FirstLineSegmentContext have an end right
\* after the LF, a mandatory one, and none before the CR or inside CR LF;
\* "a\r\nb" is cut into "a\r\n" and "b".
C8_CRLF ==
    /\ ScanDone =>
           \A i \in CRLFAt :
               /\ ~gbounds[i + 1]
               /\ i > 1 => lverds[i] = LineDontBreak
               /\ lverds[i + 1] = LineDontBreak
               /\ i + 2 <= NumRunes(input) => lverds[i + 2] = LineMustBreak
    /\ (ScanDone /\ Done) =>
           /\ \A i \in CRLFAt :
                  /\ OffsetOf(input, i + 1) \in SegmentEnds
                  /\ OffsetOf(input, i) \notin SegmentEnds
                  /\ OffsetOf(input, i - 1) \notin SegmentEnds
                  /\ \A k \in 1..Len(clusters) :
                         EndOf(k) = OffsetOf(input, i + 1)
                             => verdicts[k] = LineMustBreak
           /\ input = TextCRLF => clusters = <<<<97, 13, 10>>, <<98>>>>

C8_Witness ==
    /\ ScanDone
    /\ Done
    /\ \E i \in CRLFAt : i > 1 /\ i + 2 <= NumRunes(input)
    /\ Len(clusters) = 2

\* The text is AL+ HY AL+ with the hyphen as code point k.
HyphenAt(k) ==
    /\ k > 1
    /\ k < NumRunes(input)
    /\ ClassAt(k) = prHY
    /\ \A i \in (1..NumRunes(input)) \ {k} : ClassAt(i) = prAL

C11_CanBetweenLetters ==
    (input = TextHello /\ Done /\ FromInitial) =>
        /\ clusters = <<<<72>>, <<101>>, <<108>>, <<108>>, <<111>>>>
        /\ LineVerdicts = <<LineCanBreak, LineCanBreak, LineCanBreak,
                            LineCanBreak, LineMustBreak>>

\* C11 (amended): "Hello" steps into H, e, l, l, o with the line verdicts
\* DontBreak four times (no break between letters, LB28), then MustBreak.
C11_DontBetweenLetters ==
    (input = TextHello /\ Done /\ FromInitial) =>
        /\ clusters = <<<<72>>, <<101>>, <<108>>, <<108>>, <<111>>>>
        /\ LineVerdicts = <<LineDontBreak, LineDontBreak, LineDontBreak,
                            LineDontBreak, LineMustBreak>>

C11_Witness ==
    /\ input = TextHello
    /\ Done
    /\ FromInitial
    /\ Len(clusters) = 5
    /\ LineVerdicts[4] = LineDontBreak
    /\ LineVerdicts[5] = LineMustBreak

(***************************************************************************)
(* Texts given as code points.  A Go string or []byte conversion of runes  *)
(* is their UTF-8 encoding; the parsers scan the text code point by code   *)
(* point, then the text is stepped from the initial token:                 *)
(*     for len(b) > 0 { c, b, boundaries, state = Step(b, state) }         *)
(***************************************************************************)
MaxRunes == 4

\* Regional indicator A, a letter, a combining mark.
FlagRunes == {127462, 97, 769}

\* Grinning face (wide), heavy black heart (narrow), ZWJ, the variation
\* selectors, a letter.
EmojiRunes == {128512, 10084, 8205, vs15, vs16, 97}

\* Hangul choseong and jungseong, Devanagari ka and virama, a combining
\* mark, a letter.
SyllableRunes == {4352, 4449, 2325, 2381, 769, 97}

RuneGroups == {FlagRunes, EmojiRunes, SyllableRunes}

RuneTexts == UNION {UNION {[1..n -> g] : n \in 0..MaxRunes} : g \in RuneGroups}

\* utf8.EncodeRune
EncodeRune(r) ==
    IF r < 128 THEN <<r>>
    ELSE IF r < 2048 THEN <<192 + (r \div 64), 128 + (r % 64)>>
    ELSE IF r < 65536
    THEN <<224 + (r \div 4096), 128 + ((r \div 64) % 64), 128 + (r % 64)>>
    ELSE <<240 + (r \div 262144), 128 + ((r \div 4096) % 64),
           128 + ((r \div 64) % 64), 128 + (r % 64)>>

RECURSIVE Encode(_)
Encode(rs) ==
    IF rs = <<>> THEN <<>> ELSE EncodeRune(Head(rs)) \o Encode(Tail(rs))

InitRunes ==
    /\ input \in {Encode(rs) : rs \in RuneTexts}
    /\ cut = Len(input)
    /\ b = input
    /\ pending = <<>>
    /\ start = InitialToken
    /\ state = start
    /\ clusters = <<>>
    /\ verdicts = <<>>
    /\ path = "none"
    /\ calls = 0
    /\ ScanIdle

StepScanned ==
    /\ pos = NumRunes(input)
    /\ StepCall

NextRunes == Scan \/ StepScanned

SpecRunes == InitRunes /\ [][NextRunes]_vars

\* The code points of the text, and those of each cluster returned.
RuneAt(i) == Runes(input)[i][1]

GraphemeAt(i) == propertyGraphemes(RuneAt(i))

ClusterRunes(k) == [i \in 1..NumRunes(clusters[k]) |-> Runes(clusters[k])[i][1]]

WidthOf(v) == v \div 16

\* The code points the Step calls made so far have returned in clusters.
RECURSIVE SteppedRunes(_)
SteppedRunes(k) == IF k = 0 THEN 0 ELSE SteppedRunes(k - 1) + NumRunes(clusters[k])

\* A cluster returned by Step starts at code point i.
ClusterStartsAt(i) == \E k \in 0..(Len(clusters) - 1) : SteppedRunes(k) = i - 1

\* The regional indicators that stand immediately before code point i.
RECURSIVE RIBefore(_)
RIBefore(i) ==
    IF i > 1 /\ GraphemeAt(i - 1) = prRegionalIndicator THEN 1 + RIBefore(i - 1) ELSE 0

\* C12: in a run of consecutive regional indicators the grapheme parser
\* reports no boundary before the 2nd, 4th, ... indicator and a boundary
\* before the 3rd, 5th, ...; the clusters of successive Step calls, which
\* carry the parity in the state token, are cut the same way.
C12_RegionalIndicatorPairs ==
    /\ \A i \in 1..pos :
          (GraphemeAt(i) = prRegionalIndicator /\ RIBefore(i) > 0)
              => (gbounds[i] <=> RIBefore(i) % 2 = 0)
    /\ \A i \in 1..SteppedRunes(Len(clusters)) :
          (GraphemeAt(i) = prRegionalIndicator /\ RIBefore(i) > 0)
              => (ClusterStartsAt(i) <=> RIBefore(i) % 2 = 0)

C12_Witness ==
    /\ NumRunes(input) = 4
    /\ RIBefore(4) = 3
    /\ GraphemeAt(4) = prRegionalIndicator
    /\ pos = 4
    /\ gbounds = <<TRUE, FALSE, TRUE, FALSE>>
    /\ Done
    /\ Len(clusters) = 2
    /\ ClusterStartsAt(3)

\* Code point j ends a sequence ExtendedPictographic Extend*.
RECURSIVE EndsEmojiBase(_)
EndsEmojiBase(j) ==
    /\ j >= 1
    /\ \/ GraphemeAt(j) = prExtendedPictographic
       \/ GraphemeAt(j) = prExtend /\ EndsEmojiBase(j - 1)

\* Code point i stands inside ExtendedPictographic Extend* ZWJ
\* ExtendedPictographic, after its first code point.
InsideEmojiSequence(i) ==
    /\ i >= 2
    /\ \/ GraphemeAt(i) = prExtend /\ EndsEmojiBase(i - 1)
       \/ GraphemeAt(i) = prZWJ /\ EndsEmojiBase(i - 1)
       \/ /\ GraphemeAt(i) = prExtendedPictographic
          /\ GraphemeAt(i - 1) = prZWJ
          /\ EndsEmojiBase(i - 2)

\* Code point i is an ExtendedPictographic after a ZWJ that no
\* ExtendedPictographic Extend* precedes.
AfterLooseZWJ(i) ==
    /\ i >= 2
    /\ GraphemeAt(i) = prExtendedPictographic
    /\ GraphemeAt(i - 1) = prZWJ
    /\ ~EndsEmojiBase(i - 2)

\* C13: GB11.  The grapheme parser reports no boundary inside
\* ExtendedPictographic Extend* ZWJ ExtendedPictographic, and a boundary
\* before an ExtendedPictographic that follows a ZWJ not preceded by
\* ExtendedPictographic Extend*; the clusters returned by Step are cut the
\* same way.
C13_EmojiZWJ ==
    /\ \A i \in 1..pos :
          /\ InsideEmojiSequence(i) => ~gbounds[i]
          /\ AfterLooseZWJ(i) => gbounds[i]
    /\ \A i \in 1..SteppedRunes(Len(clusters)) :
          /\ InsideEmojiSequence(i) => ~ClusterStartsAt(i)
          /\ AfterLooseZWJ(i) => ClusterStartsAt(i)

\* Heart VS-16 ZWJ face is scanned and stepped as one cluster.
C13_Witness ==
    /\ NumRunes(input) = 4
    /\ pos = 4
    /\ Done
    /\ [i \in 1..4 |-> RuneAt(i)] = <<10084, vs16, 8205, 128512>>
    /\ gbounds = <<TRUE, FALSE, FALSE, FALSE>>
    /\ Len(clusters) = 1

\* Face ZWJ ZWJ heart is cut before the heart.
LooseZWJReached ==
    /\ NumRunes(input) = 4
    /\ pos = 4
    /\ Done
    /\ [i \in 1..4 |-> RuneAt(i)] = <<128512, 8205, 8205, 10084>>
    /\ gbounds = <<TRUE, FALSE, FALSE, TRUE>>
    /\ Len(clusters) = 2

\* The InCB sub-state held in bits 8 - 11 of a grapheme parser state.
InCBOf(st) == ((st \div 256) % 16) * 256

InCBAt(i) == propertyInCB(RuneAt(i))

\* The first n code points end with an InCB consonant followed only by
\* InCB Extend / Linker code points, at least one of them a Linker.
ConjunctOpen(n) ==
    \E c \in 1..n :
        /\ InCBAt(c) = prInCBConsonant
        /\ \A j \in (c + 1)..n : InCBAt(j) \in {prInCBExtend, prInCBLinker}
        /\ \E j \in (c + 1)..n : InCBAt(j) = prInCBLinker

\* The InCB=Consonant code points of the texts.
Consonants == {r \in SyllableRunes : propertyInCB(r) = prInCBConsonant}

\* C14: GB9c.  After the code points scanned so far the InCB sub-state is
\* ConsonantLinker exactly when they end with a consonant followed only by
\* Extend / Linker code points with at least one Linker; a consonant that
\* arrives in that sub-state gets no boundary, whatever the base transition
\* decides, and a consonant that arrives in any other sub-state gets the
\* decision of the base transition.
C14_Conjuncts ==
    /\ InCBOf(gstate) = grInCBLinker <=> ConjunctOpen(pos)
    /\ \A r \in Consonants :
          transitionGraphemeState(gstate, r).boundary =
              IF InCBOf(gstate) = grInCBLinker THEN FALSE
              ELSE grBaseTransition(gstate % 256, propertyGraphemes(r))[2]
    /\ \A i \in 2..pos :
          (InCBAt(i) = prInCBConsonant /\ ConjunctOpen(i - 1)) => ~gbounds[i]

\* Ka, virama, combining mark, ka: the second ka arrives in the
\* ConsonantLinker sub-state and no boundary is reported before it, though
\* the base transition from the same base state decides a boundary.
C14_Witness ==
    /\ NumRunes(input) = 4
    /\ [i \in 1..4 |-> RuneAt(i)] = <<2325, 2381, 769, 2325>>
    /\ pos = 4
    /\ gbounds = <<TRUE, FALSE, FALSE, FALSE>>
    /\ InCBOf(gstate) = grInCBConsonant
    /\ grBaseTransition(grAny, propertyGraphemes(2325))[2]

(***************************************************************************)
(* The line machine fed rune by rune: from the initial context, any code   *)
(* point of the line-break table (and a letter and a digit of the fast     *)
(* path) may follow any other, at the end of the text or before more text. *)
(***************************************************************************)
LineRunes == {lineBreakCodePoints[i][1] : i \in DOMAIN lineBreakCodePoints} \cup {97, 48}

\* What follows the rune: nothing (end of text) or more text.
Lookaheads == {<<>>, <<97>>}

InitLine ==
    /\ input = <<>>
    /\ cut = 0
    /\ b = <<>>
    /\ pending = <<>>
    /\ start = -1
    /\ state = start
    /\ clusters = <<>>
    /\ verdicts = <<>>
    /\ path = "none"
    /\ calls = 0
    /\ ScanIdle

FeedRecord(t) ==
    /\ fed' = t.lb
    /\ lctx' = t.ctx
    /\ UNCHANGED <<input, start, cut, pending, b, state, clusters, verdicts, path,
                   calls, pos, gstate, gbounds, lverds, search>>

Feed(r, rest) == FeedRecord(transitionLineBreakContext(lctx, r, rest, <<>>))

NextLine == \E r \in LineRunes, rest \in Lookaheads : Feed(r, rest)

SpecLine == InitLine /\ [][NextLine]_vars

\* The verdict the line machine returns for the rune r, followed by rest, in
\* the context reached.
VerdictFor(r, rest) == transitionLineBreakContext(lctx, r, rest, <<>>).lb

\* The line-break property of a rune after LB1.
ResolvedProp(r) == lb1Resolve(propertyLineBreak(r)[1], propertyLineBreak(r)[2])

LineVerdictSet == {LineDontBreak, LineCanBreak, LineMustBreak}

\* C16: from every reachable context and for every code point class the
\* line machine returns LineDontBreak, LineCanBreak or LineMustBreak, never
\* the -1 of applyLB25 / applyLB28a, and the line field of a boundaries
\* value packed from such a verdict is never 3.
C16_VerdictRange ==
    /\ \A r \in LineRunes, rest \in Lookaheads : VerdictFor(r, rest) \in LineVerdictSet
    /\ \A lb \in LineVerdictSet, width \in 0..4 :
          \A wordBoundary \in BOOLEAN, sentenceBoundary \in BOOLEAN :
              BitAnd(ClusterBoundaries(lb, width, wordBoundary, sentenceBoundary),
                     MaskLine) = lb
    /\ \A width \in 0..4 : BitAnd(EndBoundaries(width), MaskLine) = LineMustBreak

\* After a digit, a letter comes: neither applyLB25 nor applyLB28a has a
\* rule (both give -1), and the verdict returned is LineDontBreak.
C16_Witness ==
    /\ lctx.State = lbcNU
    /\ fed = LineCanBreak
    /\ applyLB25(lctx, ResolvedProp(1488)) = -1
    /\ applyLB28a(lctx, ResolvedProp(1488), FALSE) = -1
    /\ VerdictFor(1488, <<>>) = LineDontBreak

\* The grapheme property of the first code point of the cluster k.
FirstProp(k) == propertyGraphemes(ClusterRunes(k)[1])

\* The width of a cluster in which only the first code point counts, but
\* for VS-15 / VS-16 in a cluster that starts with an ExtendedPictographic:
\* the width after the first n code points rs[1..n].
RECURSIVE FirstOnlyWidth(_, _)
FirstOnlyWidth(rs, n) ==
    IF n = 1 THEN runeWidth(rs[1], propertyGraphemes(rs[1]))
    ELSE IF propertyGraphemes(rs[1]) = prExtendedPictographic /\ rs[n] = vs15 THEN 1
    ELSE IF propertyGraphemes(rs[1]) = prExtendedPictographic /\ rs[n] = vs16 THEN 2
    ELSE FirstOnlyWidth(rs, n - 1)

\* C17: within a cluster every code point after the first adds 0 to the
\* width Step reports, except that in a cluster starting with an
\* ExtendedPictographic VS-15 sets the width to 1 and VS-16 sets it to 2.
C17_LaterCodePointsAddNothing ==
    \A k \in 1..Len(clusters) :
        WidthOf(verdicts[k]) = FirstOnlyWidth(ClusterRunes(k), Len(ClusterRunes(k)))

\* C18: for a cluster whose first code point is a regional indicator or a
\* Hangul L jamo the width Step reports is the width of that first code
\* point alone, however many code points the cluster holds.
C18_FirstAloneForRIAndL ==
    \A k \in 1..Len(clusters) :
        FirstProp(k) \in {prRegionalIndicator, prL}
            => WidthOf(verdicts[k]) = runeWidth(ClusterRunes(k)[1], FirstProp(k))

\* A cluster of an L jamo, a V jamo and a combining mark, or of two
\* regional indicators and a combining mark, returned with width 2.
C18_Witness ==
    /\ Len(clusters) >= 1
    /\ Len(ClusterRunes(1)) = 3
    /\ FirstProp(1) \in {prRegionalIndicator, prL}
    /\ propertyGraphemes(ClusterRunes(1)[2]) \in {prRegionalIndicator, prV}
    /\ WidthOf(verdicts[1]) = 2

HardBreakStates == {lbcBK, lbcCR, lbcLF, lbcNL}

\* C19: the line machine returns LineMustBreak for a code point if and only
\* if the base state before it is BK, CR, LF or NL and the pair is not CR
\* followed by LF; no code point after ZW, SP or any other class gets
\* LineMustBreak.
C19_MustOnlyAfterHardBreak ==
    \A r \in LineRunes, rest \in Lookaheads :
        VerdictFor(r, rest) = LineMustBreak <=>
            /\ lctx.State \in HardBreakStates
            /\ ~(lctx.State = lbcCR /\ ResolvedProp(r) = prLF)

\* The states after SP (SP alone or one of the X SP* pseudo-states).
SpaceStates == {lbcSP, lbcB2SP, lbcCLCP, lbcQUSP, lbcOPSP, lbcQUPiSP, lbcZWSP}

\* The contexts in which a combining mark cannot attach: after SP, after
\* ZW, after a mandatory break, at the start of the text.
CannotAttach ==
    \/ lctx.State \in SpaceStates
    \/ lctx.State = lbcZW
    \/ lctx.State \in HardBreakStates
    \/ lctx.State < 0
    \/ lctx.State = lbcAny

\* The code points that are CM or ZWJ after LB1.
CombiningRunes == {r \in LineRunes : ResolvedProp(r) \in {prCM, prZWJ}}

\* The transition on r gives the verdict, the base state and the flags
\* (AfterZWJ apart) of the transition on the letter a.
LikeLetter(t, a) ==
    /\ t.lb = a.lb
    /\ t.ctx.State = a.ctx.State
    /\ BitClear(t.ctx.Flags, lbCtxAfterZWJ) = BitClear(a.ctx.Flags, lbCtxAfterZWJ)

\* C20: LB10.  Where it cannot attach, a CM or ZWJ is treated as AL: the
\* verdict before it and the resulting context (base state, flags other
\* than AfterZWJ) are those the line machine produces for an AL code point
\* in the same context.
C20_CombiningAsLetter ==
    CannotAttach =>
        \A r \in CombiningRunes, rest \in Lookaheads :
            LikeLetter(transitionLineBreakContext(lctx, r, rest, <<>>),
                       transitionLineBreakContext(lctx, 97, rest, <<>>))

\* C21: after a transition of the line machine that returns LineCanBreak
\* or LineMustBreak the StartOfText flag is clear in the resulting
\* context.
C21_BreakClearsSot ==
    fed \in {LineCanBreak, LineMustBreak} => ~HasFlag(lctx.Flags, lbCtxSot)

(***************************************************************************)
(* Texts scanned by the grapheme parser and the line machine, code point   *)
(* by code point, each transition given the rest of the text as lookahead. *)
(* A text is made of the code points of one group, the classes one family  *)
(* of rules reads.                                                         *)
(***************************************************************************)
\* HH, HY, AL, HL, EX.
HyphenRunes == {8208, 45, 97, 1488, 33}

\* HL, HY, BA, ID, AL.
HebrewRunes == {1488, 45, 8201, 19990, 97}

\* QU (Pi), QU (Pf), SP, OP, CP, B2, AL.
QuoteRunes == {171, 187, 32, 40, 41, 8212, 97}

\* NU, SY, IS, CL, CP, PO, PR.
NumericRunes == {48, 47, 46, 125, 41, 37, 36}

\* The dotted circle, VI, VF, AP, SP, NU, OP, AL.
DottedRunes == {DottedCircle, 6980, 7154, 69635, 32, 48, 40, 97}

\* RI, SP, GL, ZWJ, LF, AL.
IndicatorRunes == {127462, 32, 160, 8205, 10, 97}

\* CR, LF, Control, Extend, ZWJ, SpacingMark, Prepend, an InCB consonant,
\* an InCB linker.
ControlRunes == {13, 10, 8203, 769, 8205, 2307, 1536, 2325, 2381}

ScanGroups == {HyphenRunes, HebrewRunes, QuoteRunes, NumericRunes, DottedRunes,
               IndicatorRunes, ControlRunes}

ScanTexts == UNION {UNION {[1..n -> g] : n \in 0..MaxRunes} : g \in ScanGroups}

InitScan ==
    /\ input \in {Encode(rs) : rs \in ScanTexts}
    /\ cut = Len(input)
    /\ b = input
    /\ pending = <<>>
    /\ start = -1
    /\ state = start
    /\ clusters = <<>>
    /\ verdicts = <<>>
    /\ path = "none"
    /\ calls = 0
    /\ ScanIdle

SpecScan == InitScan /\ [][Scan]_vars

\* The line class, after LB1, of the code point i of the text.
LineClassAt(i) == ResolvedProp(RuneAt(i))

\* C22: LB20.1.  HH followed by AL or HL gives LineDontBreak at every
\* position of the text; HY followed by AL or HL gives LineDontBreak when
\* the HY is the first code point of the text and LineCanBreak when some
\* code point precedes the HY.
C22_HyphenBeforeLetter ==
    \A i \in 2..pos :
        LineClassAt(i) \in {prAL, prHL} =>
            /\ LineClassAt(i - 1) = prHH => lverds[i] = LineDontBreak
            /\ LineClassAt(i - 1) = prHY =>
                  lverds[i] = IF i = 2 THEN LineDontBreak ELSE LineCanBreak

\* The classes an earlier rule decides before LB21a is reached (hard
\* breaks, spaces, zero width space).
EarlierRuleClasses == {prBK, prCR, prLF, prNL, prSP, prZW}

\* C23: LB21a.  After an HL immediately followed by HY or BA, the verdict
\* before the next code point is LineDontBreak when that code point is
\* neither HL nor AL and no earlier rule decides it.
C23_HebrewHyphen ==
    \A i \in 3..pos :
        (/\ LineClassAt(i - 2) = prHL
         /\ LineClassAt(i - 1) \in {prHY, prBA}
         /\ LineClassAt(i) \notin {prHL, prAL} \cup EarlierRuleClasses)
            => lverds[i] = LineDontBreak

\* The first n code points of the text are a run (QU_Pi SP*)+ that ends
\* with a space.
QuoteSpaceRun(n) ==
    /\ n >= 2
    /\ LineClassAt(1) = prQU
    /\ propertyLineBreak(RuneAt(1))[2] = gcPi
    /\ LineClassAt(n) = prSP
    /\ \A j \in 1..n : \/ LineClassAt(j) = prSP
                       \/ /\ LineClassAt(j) = prQU
                          /\ propertyLineBreak(RuneAt(j))[2] = gcPi

\* The code points q .. n are a QU_Pi followed by spaces only, at least one.
QuoteThenSpaces(q, n) ==
    /\ q < n
    /\ LineClassAt(q) = prQU
    /\ propertyLineBreak(RuneAt(q))[2] = gcPi
    /\ \A j \in (q + 1)..n : LineClassAt(j) = prSP

\* The classes LB7 - LB17 decide after a space, whatever precedes it.
BeforeLB18Classes ==
    {prBK, prCR, prLF, prNL, prSP, prZW, prCM, prZWJ, prWJ, prGL, prCL, prCP, prEX,
     prIS, prSY, prQU, prNS, prB2}

\* C24: LB15.1 is tied to the start of the text.  When the text begins
\* with a run (QU_Pi SP*)+ ending in a space, the verdict before a
\* following OP is LineDontBreak; when a QU_Pi followed by spaces has been
\* scanned with the StartOfText flag cleared, the verdict before the code
\* point after the spaces (OP or another class LB7 - LB17 do not decide) is
\* LineCanBreak (LB18).
C24_QuoteSpaceOpen ==
    /\ \A i \in 3..pos :
          (QuoteSpaceRun(i - 1) /\ LineClassAt(i) = prOP) => lverds[i] = LineDontBreak
    /\ \A q \in 1..(pos - 1) :
          (QuoteThenSpaces(q, pos) /\ ~HasFlag(lctx.Flags, lbCtxSot))
              => \A r \in LineRunes, rest \in Lookaheads :
                     ResolvedProp(r) \notin BeforeLB18Classes
                         => VerdictFor(r, rest) = LineCanBreak

\* The class of the last code point before position i that is not a space
\* (prXX when only spaces precede i).
RECURSIVE SpaceBase(_)
SpaceBase(i) ==
    IF i <= 1 THEN prXX
    ELSE IF LineClassAt(i - 1) = prSP THEN SpaceBase(i - 1)
    ELSE LineClassAt(i - 1)

\* The states the code is in after SP, B2 SP* and (CL|CP) SP*.
AfterSpaceStates == {lbcSP, lbcB2SP, lbcCLCP}

\* The verdict on a QU_Pf (U+00BB) fed next, with the remainder given as
\* bytes and as a string.
PfBytes(rest) == transitionLineBreakContext(lctx, 187, rest, <<>>)

PfString(rest) == transitionLineBreakContext(lctx, 187, <<>>, rest)

\* C25: LB15.2.  A QU_Pf that follows a space (state SP, B2 SP* or
\* (CL|CP) SP*) gets LineDontBreak when it is the last code point of the
\* input and LineCanBreak when a code point follows it, in the scanned text
\* and for a QU_Pf fed next; the byte and the string remainder decide alike.
C25_QuoteAtEnd ==
    /\ \A i \in 2..pos :
          (/\ LineClassAt(i) = prQU
           /\ propertyLineBreak(RuneAt(i))[2] = gcPf
           /\ LineClassAt(i - 1) = prSP
           /\ SpaceBase(i) \in {prXX, prAL, prB2, prCL, prCP})
              => lverds[i] = (IF i = NumRunes(input) THEN LineDontBreak
                              ELSE LineCanBreak)
    /\ lctx.State \in AfterSpaceStates =>
          /\ PfBytes(<<>>).lb = LineDontBreak
          /\ PfBytes(<<97>>).lb = LineCanBreak
          /\ \A rest \in Lookaheads : PfString(rest) = PfBytes(rest)

\* The code points s .. e of the text have the form
\* NU (NU|SY|IS)* (CL|CP)? (PO|PR)?, the digits and separators ending at k.
NumericTail(k, e) ==
    \/ e = k
    \/ e = k + 1 /\ LineClassAt(e) \in {prCL, prCP, prPO, prPR}
    \/ e = k + 2 /\ LineClassAt(k + 1) \in {prCL, prCP} /\ LineClassAt(e) \in {prPO, prPR}

NumericRun(s, e) ==
    /\ LineClassAt(s) = prNU
    /\ \E k \in s..e :
          /\ \A j \in (s + 1)..k : LineClassAt(j) \in {prNU, prSY, prIS}
          /\ NumericTail(k, e)

\* The pairs of adjacent code points the restricted form of LB25 leaves to
\* the later rules: SY before NU, and SY, IS, CL or CP before PO or PR.
Unprotected(e) ==
    \/ LineClassAt(e - 1) = prSY /\ LineClassAt(e) = prNU
    \/ LineClassAt(e - 1) \in {prSY, prIS, prCL, prCP} /\ LineClassAt(e) \in {prPO, prPR}

\* The scanned code points all belong to the classes of a numeric run.
OnlyNumericClasses ==
    \A j \in 1..pos : LineClassAt(j) \in {prNU, prSY, prIS, prCL, prCP, prPO, prPR}

C27_DottedCircle ==
    \A i \in 2..pos :
        /\ (RuneAt(i - 1) = DottedCircle /\ LineClassAt(i) \in {prVI, prVF})
              => lverds[i] = LineDontBreak
        /\ (LineClassAt(i - 1) = prAP /\ RuneAt(i) = DottedCircle)
              => lverds[i] = LineDontBreak

\* The number of consecutive RI code points that end at position i.
RECURSIVE RIRun(_)
RIRun(i) ==
    IF i < 1 THEN 0
    ELSE IF LineClassAt(i) # prRI THEN 0
    ELSE 1 + RIRun(i - 1)

\* C28: LB30a.  Inside a run of consecutive RI code points the verdict
\* before the 2nd, 4th, ... RI is LineDontBreak and the verdict before the
\* 3rd, 5th, ... RI is LineCanBreak, whichever rule consumed the first RI:
\* in the scanned text, and for an RI fed after the run scanned last.
C28_IndicatorPairs ==
    /\ \A i \in 2..pos :
          /\ (RIRun(i) >= 2 /\ RIRun(i) % 2 = 0) => lverds[i] = LineDontBreak
          /\ (RIRun(i) >= 3 /\ RIRun(i) % 2 = 1) => lverds[i] = LineCanBreak
    /\ RIRun(pos) >= 1 =>
          \A rest \in Lookaheads :
              VerdictFor(127462, rest) = (IF RIRun(pos) % 2 = 1 THEN LineDontBreak
                                         ELSE LineCanBreak)

\* C29: LB8a flag hygiene.  The AfterZWJ flag of the line context is set
\* only if the code point consumed last was a ZWJ; after any other code
\* point (BK, CR, LF, NL included) it is clear.
C29_AfterZWJOnlyAfterZWJ ==
    HasFlag(lctx.Flags, lbCtxAfterZWJ) => (pos >= 1 /\ RuneAt(pos) = 8205)

\* The grapheme properties GB4 and GB5 break around.
ControlProps == {prCR, prLF, prControl}

\* C30: GB4 / GB5 dominate.  A boundary is reported after every CR, LF or
\* Control and before every CR, LF or Control, CR x LF alone excepted,
\* whatever the neighbouring code point and the InCB sub-state are.
C30_ControlsBreak ==
    \A i \in 2..pos :
        (GraphemeAt(i - 1) \in ControlProps \/ GraphemeAt(i) \in ControlProps)
            => gbounds[i] = ~(GraphemeAt(i - 1) = prCR /\ GraphemeAt(i) = prLF)

\* A consonant and a virama have been scanned, then a Control: the InCB
\* sub-state was ConsonantLinker and the boundary before the Control is
\* reported.
C30_Witness ==
    /\ pos = 3
    /\ InCBAt(1) = prInCBConsonant
    /\ InCBAt(2) = prInCBLinker
    /\ GraphemeAt(3) = prControl
    /\ gbounds[3]
    /\ InCBOf(gstate) = grInCBNone

\* The grapheme classes, prXX and prAny included.
GraphemeProps == prXX..prExtendedPictographic

\* A table entry exists.
Found(entry) == entry[1] >= 0

\* The resolution of a transition in three tiers: the exact entry; with
\* both wildcard entries, the state of (Any, class) and the verdict of the
\* entry with the lower rule number, (Any, class) on a tie; the one wildcard
\* entry that exists; a boundary and the state Any (GB999).
Resolution(exact, stateAny, anyClass) ==
    CASE Found(exact) -> <<exact[1], exact[2] = grBoundary>>
      [] ~Found(exact) /\ Found(stateAny) /\ Found(anyClass) ->
            <<anyClass[1],
              (IF anyClass[3] <= stateAny[3] THEN anyClass[2] ELSE stateAny[2]) = grBoundary>>
      [] ~Found(exact) /\ Found(stateAny) /\ ~Found(anyClass) ->
            <<stateAny[1], stateAny[2] = grBoundary>>
      [] ~Found(exact) /\ ~Found(stateAny) /\ Found(anyClass) ->
            <<anyClass[1], anyClass[2] = grBoundary>>
      [] OTHER -> <<grAny, TRUE>>

\* C31: for the base state the grapheme analyzer is in and every class, the
\* base transition is the exact table entry if there is one; else, with a
\* (state, Any) and an (Any, class) entry, the state of the latter and the
\* verdict of the one with the lower rule number; else the wildcard entry
\* that exists; else a boundary with the state Any.
C31_TransitionResolution ==
    \A prop \in GraphemeProps :
        grBaseTransition(gstate % 256, prop) =
            Resolution(grTransitions(gstate % 256, prop),
                       grTransitions(gstate % 256, prAny),
                       grTransitions(grAny, prop))

\* After a CR an Extend has been scanned: both wildcard entries apply, the
\* boundary comes from (CR, Any), rule 40, and the state from (Any, Extend).
C31_Witness ==
    /\ pos = 2
    /\ GraphemeAt(1) = prCR
    /\ GraphemeAt(2) = prExtend
    /\ ~Found(grTransitions(grCR, prExtend))
    /\ gbounds[2]
    /\ gstate % 256 = grAny

(***************************************************************************)
(* The legacy parser and the context parser side by side: both are fed the *)
(* code points of the text, each from its initial state; state and         *)
(* verdicts hold the state and the verdicts of the legacy parser.          *)
(***************************************************************************)
ScanBothRecord(t, o) ==
    /\ lctx' = t.ctx
    /\ lverds' = Append(lverds, t.lb)
    /\ state' = o[1]
    /\ verdicts' = Append(verdicts, o[2])
    /\ pos' = pos + 1
    /\ UNCHANGED <<input, start, cut, pending, b, clusters, path, calls, fed,
                   gstate, gbounds, search>>

ScanBothRune(d, rest) ==
    ScanBothRecord(transitionLineBreakContext(lctx, d[1], rest, <<>>),
                   transitionLineBreakState(state, d[1], rest, <<>>))

ScanBothAt(off, d) == ScanBothRune(d, SubSeqFrom(input, off + d[2]))

ScanBoth ==
    /\ pos < NumRunes(input)
    /\ ScanBothAt(OffsetOf(input, pos), DecodeRune(SubSeqFrom(input, OffsetOf(input, pos))))

SpecBoth == InitScan /\ [][ScanBoth]_vars

\* C32: the legacy parser and the context parser return the same verdict at
\* every position of the text.
C32_SameVerdicts ==
    \A i \in 1..pos : verdicts[i] = lverds[i]

\* One uninterrupted pass of the grapheme and the line analyzer over the
\* first n code points of the text, from their initial states: the states
\* are handed on as they are, without a token.
PassNext(p, r, rest) ==
    [g |-> transitionGraphemeState(p.g, r).state,
     ctx |-> transitionLineBreakContext(p.ctx, r, rest, <<>>).ctx]

RECURSIVE PassStates(_)
PassStates(n) ==
    IF n = 0 THEN [g |-> -1, ctx |-> unpackLineContext(-1)]
    ELSE PassNext(PassStates(n - 1), RuneAt(n), SubSeqFrom(input, OffsetOf(input, n)))

\* The number of code points the calls made so far have returned.
Consumed == NumRunes(input) - NumRunes(b)

TokenCarries(p) ==
    /\ ~state.neg
    /\ state.gr = p.g
    /\ state.lb = packLineContext(p.ctx)

\* C33: lockstep without re-scanning.  After every chained call of Step
\* that returns a non-empty rest, the grapheme and the line state of the
\* returned token are the states of one uninterrupted pass of the two
\* analyzers over the code points consumed so far and the first code point
\* of the rest.
C33_Lockstep ==
    (calls >= 1 /\ Len(b) > 0) => TokenCarries(PassStates(Consumed + 1))

\* Two calls have returned a non-empty rest, the second one a cluster of
\* two code points, and the token holds the states of the pass.
C33_Witness ==
    /\ calls = 2
    /\ Len(b) > 0
    /\ NumRunes(clusters[2]) = 2
    /\ Consumed = 3
    /\ state.gr # grAny
    /\ TokenCarries(PassStates(4))

\* The texts of code points scanned, then cut into line segments:
\*     for len(b) > 0 { seg, b, _, state = FirstLineSegmentContext(b, state) }
SpecCut == InitScan /\ [][NextSeg]_vars

\* The byte offsets before the code points for which the uninterrupted pass
\* of the line machine over the whole text returned a verdict other than
\* LineDontBreak (the first code point apart).
BreakOffsets ==
    {OffsetOf(input, i - 1) : i \in {j \in 2..pos : lverds[j] # LineDontBreak}}

\* The verdict of the pass before the code point that starts at the offset.
PassVerdictAt(offset) ==
    lverds[CHOOSE i \in 2..pos : OffsetOf(input, i - 1) = offset]

\* C34: FirstLineSegmentContext streaming.  Chained calls from the state -1
\* cut the text exactly where one uninterrupted pass of
\* transitionLineBreakContext returns a verdict other than LineDontBreak,
\* report that verdict as breakType and LineMustBreak for the last segment,
\* and the segments concatenated (with the rest not yet cut) are the text.
C34_SegmentsFollowPass ==
    ScanDone =>
        /\ Concat(clusters) \o b = input
        /\ \A k \in 1..Len(clusters) :
              IF EndOf(k) = Len(input)
              THEN verdicts[k] = LineMustBreak
              ELSE /\ EndOf(k) \in BreakOffsets
                   /\ verdicts[k] = PassVerdictAt(EndOf(k))
        /\ \A o \in BreakOffsets : o < Len(input) - Len(b) => o \in SegmentEnds

\* A text has been cut into three segments, the second call resuming from
\* the state the first returned: a break opportunity, a mandatory break and
\* the end of the text.
C34_Witness ==
    /\ ScanDone
    /\ Done
    /\ Len(clusters) = 3
    /\ verdicts = <<LineCanBreak, LineMustBreak, LineMustBreak>>
    /\ BreakOffsets = {EndOf(1), EndOf(2)}

\* The text after the first code point.
AfterFirst == SubSeqFrom(input, OffsetOf(input, 1))

\* C35: sentinel bootstrap.  For every code point that may be fed first
\* (computed once, before the empty text), and after the first code point
\* of the text has been fed with the negative sentinel,
\* the grapheme state (base state and InCB bits) is
\* the one the code point yields from the state Any with InCB None, and the
\* line context is the one it yields from the base state Any with exactly
\* the StartOfText flag set.
C35_SentinelBootstrap ==
    /\ (pos = 0 /\ input = <<>>) =>
          \A r \in LineRunes :
              /\ transitionGraphemeState(gstate, r).state =
                     transitionGraphemeState(BitOr(grAny, grInCBNone), r).state
              /\ \A rest \in Lookaheads :
                     transitionLineBreakContext(lctx, r, rest, <<>>) =
                         transitionLineBreakContext(LineContext(lbcAny, lbCtxSot), r,
                                                    rest, <<>>)
    /\ pos = 1 =>
        /\ gstate = transitionGraphemeState(BitOr(grAny, grInCBNone), RuneAt(1)).state
        /\ lctx = transitionLineBreakContext(LineContext(lbcAny, lbCtxSot), RuneAt(1),
                                             AfterFirst, <<>>).ctx
        /\ lverds[1] = transitionLineBreakContext(LineContext(lbcAny, lbCtxSot),
                                                  RuneAt(1), AfterFirst, <<>>).lb

\* A quotation mark (Pi) has been fed first: the line context still has the
\* StartOfText flag.  (A consonant fed first leaves the InCB bits of a
\* consonant in the grapheme state: ConsonantBootstrapped.)
C35_Witness ==
    /\ pos = 1
    /\ RuneAt(1) = 171
    /\ lctx.State = lbcQUPi
    /\ HasFlag(lctx.Flags, lbCtxSot)

ConsonantBootstrapped ==
    /\ pos = 1
    /\ RuneAt(1) = 2325
    /\ InCBOf(gstate) = grInCBConsonant

(***************************************************************************)
(* The texts of both families are scanned; those over the code points      *)
(* whose word and sentence classes are tabulated are then stepped from     *)
(* the initial token.                                                      *)
(***************************************************************************)
InitTokens ==
    /\ input \in {Encode(rs) : rs \in RuneTexts \cup ScanTexts}
    /\ cut = Len(input)
    /\ b = input
    /\ pending = <<>>
    /\ start = InitialToken
    /\ state = start
    /\ clusters = <<>>
    /\ verdicts = <<>>
    /\ path = "none"
    /\ calls = 0
    /\ ScanIdle

Tabulated == \E g \in RuneGroups : \A i \in 1..NumRunes(input) : RuneAt(i) \in g

StepTabulated ==
    /\ Tabulated
    /\ StepScanned

NextTokens == Scan \/ StepTabulated

SpecTokens == InitTokens /\ [][NextTokens]_vars

\* The line context a packed value is unpacked to is the one packed.
LineRoundTrip(ctx) ==
    /\ packLineContext(ctx) \in 0..maskLineState
    /\ unpackLineContext(packLineContext(ctx)) = ctx

\* The fields of the token are the values p and prop that were packed.
TokenFields(p, prop) ==
    /\ state.gr = p.g
    /\ state.lb = packLineContext(p.ctx)
    /\ unpackLineContext(state.lb) = p.ctx
    /\ state.pr = prop
    /\ state.wb \in 0..maskWordState
    /\ state.sb \in 0..maskSentenceState

\* C36: state token integrity.  Every token returned by Step for a
\* non-empty input is non-negative; every grapheme state reached (base
\* state plus InCB bits) fits in 12 bits and every line context reached
\* packs into 16 bits and is unpacked to itself; the fields taken from a
\* token returned with a non-empty rest are exactly the grapheme state, the
\* line context and the property that were packed.
C36_TokenIntegrity ==
    /\ (calls >= 1 /\ path # "empty") => ~state.neg
    /\ pos >= 1 => (gstate \in 0..maskGraphemeState /\ LineRoundTrip(lctx))
    /\ (calls >= 1 /\ Len(b) > 0) =>
           TokenFields(PassStates(Consumed + 1), GraphemeAt(Consumed + 1))

\* A token returned with a non-empty rest that starts with a consonant
\* after a combining mark at the start of the text: InCB bits in the
\* grapheme field, a context flag in the high byte of the line field.
C36_Witness ==
    /\ calls >= 1
    /\ Len(b) > 0
    /\ ~state.neg
    /\ state.gr >= grInCBConsonant
    /\ state.lb > maskLineState \div 256
    /\ TokenFields(PassStates(Consumed + 1), GraphemeAt(Consumed + 1))

\* A scanned context with the highest flag, packed into 16 bits.
WideContext ==
    /\ pos >= 1
    /\ HasFlag(lctx.Flags, lbCtxAksaraVirama)
    /\ packLineContext(lctx) > maskLineState \div 2
    /\ LineRoundTrip(lctx)

\* The width of the first n code points of a cluster rs, the class of
\* every code point, the first included, taken from propertyGraphemes.
RECURSIVE OracleWidth(_, _)
OracleWidth(rs, n) ==
    IF n = 1 THEN runeWidth(rs[1], propertyGraphemes(rs[1]))
    ELSE nextWidth(OracleWidth(rs, n - 1), propertyGraphemes(rs[1]), rs[n],
                   propertyGraphemes(rs[n]))

\* C37: cached first-codepoint property.  Whenever Step returns a
\* non-empty rest, the property held in the returned token is the grapheme
\* class of the first code point of the rest; so the width of every cluster
\* the chained calls return, which a later call computes from the class held
\* in the token (with the special cases of pictographs, regional indicators
\* and leading jamo), is the width computed from the classes that
\* propertyGraphemes returns.
C37_CachedProperty ==
    /\ (calls >= 1 /\ Len(b) > 0) =>
           (~state.neg /\ state.pr = GraphemeAt(Consumed + 1))
    /\ \A k \in 1..Len(clusters) :
           WidthOf(verdicts[k]) = OracleWidth(ClusterRunes(k), NumRunes(clusters[k]))

\* A letter, then a heart with VS-16 returned by the second call, whose
\* width of 2 comes from the pictographic class held in the token of the
\* first call; the token now holds the class of the letter that follows.
C37_Witness ==
    /\ calls = 2
    /\ Len(b) > 0
    /\ ClusterRunes(1) = <<97>>
    /\ ClusterRunes(2) = <<10084, vs16>>
    /\ WidthOf(verdicts[2]) = 2
    /\ RuneAt(4) = 97
    /\ state.pr = prAny

\* The StartOfText flag of the line context.
AtSot(ctx) == HasFlag(ctx.Flags, lbCtxSot)

\* C38: StartOfText is monotone.  No transition of the line machine takes
\* a context without the StartOfText flag to a context with it: once the
\* flag is clear it is clear in every later context of the text, and the
\* flag of the first context comes from the negative sentinel alone.
C38_SotMonotone ==
    [][~AtSot(lctx) => ~AtSot(lctx')]_vars

\* After a hyphen that is not at the start of the text: the flag is clear
\* where LB20a would read it.
C38_Witness ==
    /\ fed # -1
    /\ ~AtSot(lctx)
    /\ lctx.State = lbcHY

\* The flag outlives a transition that allows no break.
SotKept ==
    /\ fed = LineDontBreak
    /\ AtSot(lctx)
    /\ lctx.State >= 0

(***************************************************************************)
(* propertySearch followed iteration by iteration over small tables: the   *)
(* entries <<start, end, property, category>> of a table are sorted by     *)
(* start and their ranges do not overlap, as in the generated tables.      *)
(***************************************************************************)
MaxCodePoint == 6

MaxEntries == 3

\* The properties of the entries; none is the zero of the zero entry.
SearchProps == {prAny, prPrepend}

\* The runes searched: every code point of the tables, one below and one
\* above.
SearchRunes == (0 - 1)..(MaxCodePoint + 1)

RangesFrom(lo) ==
    {<<s, e, p, 0>> : s \in lo..MaxCodePoint, e \in lo..MaxCodePoint, p \in SearchProps}

\* The sorted tables of n entries whose first range starts at lo or above.
RECURSIVE TablesFrom(_, _)
TablesFrom(n, lo) ==
    IF n = 0 THEN {<<>>}
    ELSE UNION {{<<e>> \o t : t \in TablesFrom(n - 1, e[2] + 1)} :
                e \in {x \in RangesFrom(lo) : x[1] <= x[2]}}

SortedTables == UNION {TablesFrom(n, 0) : n \in 0..MaxEntries}

InitSearch ==
    /\ input = <<>>
    /\ cut = 0
    /\ b = <<>>
    /\ pending = <<>>
    /\ start = -1
    /\ state = start
    /\ clusters = <<>>
    /\ verdicts = <<>>
    /\ path = "none"
    /\ calls = 0
    /\ fed = -1
    /\ pos = 0
    /\ gstate = -1
    /\ lctx = unpackLineContext(-1)
    /\ gbounds = <<>>
    /\ lverds = <<>>
    /\ search \in {[dictionary |-> d, r |-> r, from |-> 0, to |-> Len(d),
                    iterations |-> 0, returned |-> FALSE, result |-> ZeroEntry] :
                   d \in SortedTables, r \in SearchRunes}

\* One iteration that leaves the entry below the middle one out when it
\* narrows the search to the lower half.
propertySearchIterationSkips(s, middle, cpRange) ==
    IF s.r < cpRange[1]
    THEN [s EXCEPT !.to = middle - 1, !.iterations = @ + 1]
    ELSE IF s.r > cpRange[2]
    THEN [s EXCEPT !.from = middle + 1, !.iterations = @ + 1]
    ELSE [s EXCEPT !.result = cpRange, !.returned = TRUE, !.iterations = @ + 1]

\* One iteration of the loop on the middle entry cpRange.
propertySearchIteration(s, middle, cpRange) ==
    IF s.r < cpRange[1]
    THEN [s EXCEPT !.to = middle, !.iterations = @ + 1]
    ELSE IF s.r > cpRange[2]
    THEN [s EXCEPT !.from = middle + 1, !.iterations = @ + 1]
    ELSE [s EXCEPT !.result = cpRange, !.returned = TRUE, !.iterations = @ + 1]

propertySearchMiddle(s, middle) ==
    propertySearchIteration(s, middle, s.dictionary[middle + 1])

SearchStep ==
    /\ ~search.returned
    /\ search.to > search.from
    /\ search' = propertySearchMiddle(search, (search.from + search.to) \div 2)
    /\ UNCHANGED <<input, start, cut, pending, b, state, clusters, verdicts, path,
                   calls, pos, gstate, lctx, gbounds, lverds, fed>>

\* The loop ends without an entry: the zero-initialized result is returned.
SearchEnd ==
    /\ ~search.returned
    /\ search.to <= search.from
    /\ search' = [search EXCEPT !.returned = TRUE]
    /\ UNCHANGED <<input, start, cut, pending, b, state, clusters, verdicts, path,
                   calls, pos, gstate, lctx, gbounds, lverds, fed>>

NextSearch == SearchStep \/ SearchEnd

SpecSearch == InitSearch /\ [][NextSearch]_vars

\* The entries of the table whose range holds the rune.
Holders ==
    {i \in 1..Len(search.dictionary) :
        search.dictionary[i][1] <= search.r /\ search.r <= search.dictionary[i][2]}

\* C39: propertySearch is a correct, terminating binary search.  Over a
\* table sorted by start code point with non-overlapping ranges, the search
\* never drops the entry that holds the rune, makes no more iterations than
\* halving the table allows, and returns the one entry whose range holds
\* the rune, or the all-zero entry (property 0) when no range holds it.
C39_BinarySearch ==
    /\ ~search.returned => Holders \subseteq ((search.from + 1)..search.to)
    /\ search.iterations >= 1 => Pow2(search.iterations - 1) <= Len(search.dictionary)
    /\ (~search.returned /\ search.to > search.from) => ENABLED SearchStep
    /\ search.returned =>
          /\ search.result = propertySearch(search.dictionary, search.r)
          /\ IF Holders = {}
             THEN search.result = ZeroEntry /\ search.result[3] = 0
             ELSE \E i \in Holders :
                     /\ Holders = {i}
                     /\ search.result = search.dictionary[i]

\* The last entry of a full table is found in the last iteration that
\* halving allows.
C39_Witness ==
    /\ search.returned
    /\ Len(search.dictionary) = MaxEntries
    /\ Holders = {MaxEntries}
    /\ search.result = search.dictionary[MaxEntries]
    /\ search.iterations = 2

\* A rune between two ranges: the zero entry is returned.
NotFoundReached ==
    /\ search.returned
    /\ Len(search.dictionary) = MaxEntries
    /\ Holders = {}
    /\ search.r > search.dictionary[1][2]
    /\ search.r < search.dictionary[MaxEntries][1]
    /\ search.result = ZeroEntry

\* One pass of the four parsers over the text that keeps, for each cluster,
\* the line verdict, the word and sentence flags and the width apart:
\* <<line, word, sentence, width>> per cluster.
RECURSIVE FieldsPass(_, _, _, _, _, _, _, _)
FieldsPass(text, length, g, w, s, ctx, firstProp, width) ==
    LET d == DecodeRune(SubSeqFrom(text, length))
        r == d[1]
        l == d[2]
        remainder == SubSeqFrom(text, length + l)
        gt == transitionGraphemeState(g, r)
        wt == transitionWordBreakState(w, r, remainder, <<>>)
        st == transitionSentenceBreakState(s, r, remainder, <<>>)
        lt == transitionLineBreakContext(ctx, r, remainder, <<>>)
        boundary == length > 0 /\ gt.boundary
        first == length = 0 \/ boundary
        emitted == IF boundary
                   THEN << <<lt.lb, IF wt[2] THEN 1 ELSE 0, IF st[2] THEN 1 ELSE 0,
                             width>> >>
                   ELSE <<>>
        newFirst == IF first THEN gt.prop ELSE firstProp
        newWidth == IF first THEN runeWidth(r, gt.prop)
                    ELSE nextWidth(width, firstProp, r, gt.prop)
    IN  IF Len(text) <= length + l
        THEN emitted \o << <<LineMustBreak, 1, 1, newWidth>> >>
        ELSE emitted \o FieldsPass(text, length + l, gt.state, wt[1], st[1],
                                   lt.ctx, newFirst, newWidth)

RefFields(text) ==
    IF text = <<>> THEN <<>>
    ELSE FieldsPass(text, 0, -1, -1, -1, unpackLineContext(-1), 0, 0)

\* C15: the boundaries value Step returns for a cluster is
\* lineVerdict + 4*wordBit + 8*sentenceBit + 16*width, and the masks and the
\* shift give back each of the four fields.
C15_BitLayout ==
    \A k \in 1..Len(clusters) :
        LET f == RefFields(input)[k]
            v == verdicts[k]
        IN  /\ v = f[1] + 4 * f[2] + 8 * f[3] + 16 * f[4]
            /\ BitAnd(v, MaskLine) = f[1]
            /\ BitAnd(v, MaskWord) = 4 * f[2]
            /\ BitAnd(v, MaskSentence) = 8 * f[3]
            /\ Shr(v, ShiftWidth) = f[4]

\* A cluster of width 3 returned with a line verdict, without word or
\* sentence boundary.
C15_Witness ==
    /\ Len(clusters) >= 1
    /\ Shr(verdicts[1], ShiftWidth) = 3
    /\ BitAnd(verdicts[1], MaskWord) = 0
    /\ BitAnd(verdicts[1], MaskSentence) = 0
    /\ BitAnd(verdicts[1], MaskLine) = LineCanBreak
=============================================================================
